---- MODULE Spec2Model ----
(***************************************************************************)
(* A model of the retrieval and aggregation core of marianalyzer:          *)
(*   - HybridRetriever._merge_results   (qa/retriever.py)                  *)
(*   - VectorIndex.build / search       (indexing/vector_index.py)         *)
(*   - embed_batch                      (llm/embedder.py)                  *)
(*   - cluster_requirements and select_most_representative                 *)
(*                                      (aggregation/clusterer.py)         *)
(*   - build_families                   (aggregation/family_builder.py)    *)
(*   - BM25Index.build / search         (indexing/bm25_index.py)           *)
(*   - ask, is_comparative_question, detect_question_type and the          *)
(*     dispatch of answer_pattern_question (cli.py, qa/pattern_qa.py)      *)
(*   - answer_question                  (qa/answer_engine.py)              *)
(*   - answer_comparative_question      (qa/pattern_qa.py)                 *)
(*   - OllamaClient.generate_json       (llm/ollama_client.py)             *)
(*   - the extract and list-patterns commands and extract_patterns         *)
(*                          (cli.py, extraction/pattern_extractor.py)      *)
(*   - normalize_requirement            (extraction/normalizer.py)         *)
(*   - chunk_text and split_into_sentences (chunking/text_chunker.py)      *)
(* Each component has its own specification (SpecRRF, SpecIndex, SpecAgg,  *)
(* SpecBM25, SpecAsk, SpecAnswer, SpecCompare, SpecGen, SpecExtract,       *)
(* SpecNorm, SpecChunk); the variables of the other components stay at     *)
(* their initial values.                                                   *)
(*                                                                         *)
(* Floating point numbers are modelled by exact rationals with a common    *)
(* denominator: an RRF score s is kept as s * ScoreScale, a cosine         *)
(* similarity c as c * EmbNormSq.                                          *)
(***************************************************************************)
EXTENDS Integers, Sequences, FiniteSets, TLC

VARIABLES
    \* ---- HybridRetriever._merge_results ----
    bm25_results,     \* List[(Chunk, score)]: the chunks, in rank order
    vector_results,   \* List[(chunk_id, score, metadata)], in rank order
    top_k,            \* the top_k argument
    chunk_lookup,     \* dict: chunk id string -> Chunk
    score_keys,       \* the keys of the dict chunk_scores, in insertion order
    chunk_scores,     \* the values of the dict chunk_scores (scaled)
    rrank,            \* the rank the running loop is at
    results,          \* the returned list of (chunk, score)
    rpc,              \* position in _merge_results
    \* ---- VectorIndex.build, embed_batch, VectorIndex.search ----
    collection,       \* the stored collection "chunks": its ids, in add order
    old_contents,     \* the collection's ids before the rebuild started
    chunks,           \* the chunk ids handed to build
    batch_size,       \* build's batch_size
    model_dim,        \* the dimension of the embedding model's vectors
    embeddings,       \* embed_batch's list, each vector by (dim, zero)
    bi,               \* the offset i of the running batch loop
    seen,             \* what the last search of a reader returned
    ipc,              \* position in build
    \* ---- build_families, cluster_requirements ----
    requirements,     \* number of rows of the requirements table (ids 1..n)
    req_embeddings,   \* embeddings[i], one vector per requirement
    threshold,        \* config.clustering_threshold (scaled by EmbNormSq)
    min_cluster_size, \* config.min_cluster_size
    clusters,         \* dict: cluster id -> list of item indices
    cluster_keys,     \* the keys of clusters, in insertion order
    cluster_ids,      \* list(clusters.keys()) taken at the start of a pass
    ci,               \* loop index i
    cj,               \* loop index j
    changed,          \* the flag changed
    iteration,        \* iteration: the passes of the call so far
    last_eval,        \* the pair the last step evaluated, and what it did
    todo,             \* the (filtered) clusters still to be persisted
    req_families,     \* table req_families, in insertion order
    req_family_members, \* table req_family_members, in insertion order
    stats,            \* the returned statistics of the running call
    runs,             \* number of build_families calls started
    apc,              \* position in build_families
    \* ---- BM25Index.build, BM25Index.search ----
    index_built,      \* self.index is not None
    index_chunks,     \* self.chunks: the chunk ids, in the order given
    scores,           \* the array get_scores returned to the last search
    search_top_k,     \* the top_k of the last search
    search_results,   \* the list the last search returned
    bpc,              \* position of the BM25Index object
    \* ---- ask (cli.py), detect_question_type, answer_pattern_question ----
    question,         \* the question argument, a string
    pattern_type,     \* the --pattern-type option, NoneValue when not given
    detected,         \* the pattern_type answer_pattern_question works with
    answered,         \* the handlers that built the response, in order
    qpc,              \* position in ask
    \* ---- answer_question (qa/answer_engine.py) ----
    retrieved,        \* results: the chunk ids retrieve returned, in order
    evidence,         \* one dict per retrieved chunk, in order
    response,         \* the returned QueryResponse: kind of answer, evidence
    npc,              \* position in answer_question
    \* ---- answer_comparative_question (qa/pattern_qa.py) ----
    pattern_counts,   \* dict pattern_counts: display name -> count
    comparison,       \* the returned response and the insights computed for it
    divisions,        \* the divisor of every division carried out, in order
    cpc,              \* position in answer_comparative_question
    \* ---- OllamaClient.generate_json (llm/ollama_client.py) ----
    max_retries,      \* the max_retries argument
    attempt,          \* the loop variable attempt
    calls,            \* the outcome of every generate call made, in order
    outcome,          \* how generate_json ended: returned value or raised error
    gpc,              \* position in generate_json
    \* ---- extract / list-patterns (cli.py), extract_patterns (pattern_extractor.py) ----
    cli_pattern,      \* the argument of the running command, NoneValue for a direct call
    all_step,         \* extract all: the index of the running pattern type
    ext_type,         \* extract_patterns: the pattern_type argument
    db_chunks,        \* the number of rows of the chunks table (ids 1..n)
    chunk_i,          \* extract_patterns: the index of the chunk the loop is at
    fates,            \* what became of every processed chunk, in order
    ext_stats,        \* extract_patterns: the dict stats
    patterns_table,   \* table patterns: (chunk_id, pattern_type), in insertion order
    store_touched,    \* extract_patterns has read or written the database
    ext_outcome,      \* how the call or command ended
    listed,           \* list-patterns: the type queried and the rows found
    epc,              \* position in the command
    \* ---- normalize_requirement (extraction/normalizer.py) ----
    req_words,        \* the words of the requirement text
    req_text,         \* the requirement text
    norm_once,        \* normalize_requirement(text)
    norm_twice,       \* normalize_requirement(normalize_requirement(text))
    mpc,              \* how often the normalizer has been applied
    \* ---- chunk_text ----
    doc_text,         \* text: the text to chunk
    chunk_size,       \* chunk_size: the target size of a chunk in words
    overlap,          \* overlap: the words carried over between chunks
    sentences,        \* sentences = split_into_sentences(text)
    sentence_i,       \* the number of sentences the loop has handled
    text_chunks,      \* chunks: the chunks saved so far
    current_chunk,    \* current_chunk: the sentences of the open chunk
    current_length,   \* current_length: the words of the open chunk
    kpc               \* "called", "loop", "returned", "idle"

rrfVars == <<bm25_results, vector_results, top_k, chunk_lookup, score_keys,
             chunk_scores, rrank, results, rpc>>
idxVars == <<collection, old_contents, chunks, batch_size, model_dim,
             embeddings, bi, seen, ipc>>
aggVars == <<requirements, req_embeddings, threshold, min_cluster_size,
             clusters, cluster_keys, cluster_ids, ci, cj, changed, iteration,
             last_eval,
             todo, req_families, req_family_members, stats, runs, apc>>
bm25Vars == <<index_built, index_chunks, scores, search_top_k,
              search_results, bpc>>
askVars == <<question, pattern_type, detected, answered, qpc>>
answerVars == <<retrieved, evidence, response, npc>>
compareVars == <<pattern_counts, comparison, divisions, cpc>>
genVars == <<max_retries, attempt, calls, outcome, gpc>>
extractVars == <<cli_pattern, all_step, ext_type, db_chunks, chunk_i, fates, ext_stats, patterns_table, store_touched, ext_outcome, listed, epc>>
normVars == <<req_words, req_text, norm_once, norm_twice, mpc>>
chunkVars == <<doc_text, chunk_size, overlap, sentences, sentence_i, text_chunks, current_chunk, current_length, kpc>>
vars == <<rrfVars, idxVars, aggVars, bm25Vars, askVars, answerVars, compareVars, genVars, extractVars, normVars, chunkVars>>

\* The variables of the other components, which a component leaves alone.
exceptRRF == <<idxVars, aggVars, bm25Vars, askVars, answerVars, compareVars, genVars, extractVars, normVars, chunkVars>>
exceptIndex == <<rrfVars, aggVars, bm25Vars, askVars, answerVars, compareVars, genVars, extractVars, normVars, chunkVars>>
exceptAgg == <<rrfVars, idxVars, bm25Vars, askVars, answerVars, compareVars, genVars, extractVars, normVars, chunkVars>>
exceptBM25 == <<rrfVars, idxVars, aggVars, askVars, answerVars, compareVars, genVars, extractVars, normVars, chunkVars>>
exceptAsk == <<rrfVars, idxVars, aggVars, bm25Vars, answerVars, compareVars, genVars, extractVars, normVars, chunkVars>>
exceptAnswer == <<rrfVars, idxVars, aggVars, bm25Vars, askVars, compareVars, genVars, extractVars, normVars, chunkVars>>
exceptCompare == <<rrfVars, idxVars, aggVars, bm25Vars, askVars, answerVars, genVars, extractVars, normVars, chunkVars>>
exceptGen == <<rrfVars, idxVars, aggVars, bm25Vars, askVars, answerVars, compareVars, extractVars, normVars, chunkVars>>
exceptExtract == <<rrfVars, idxVars, aggVars, bm25Vars, askVars, answerVars, compareVars, genVars, normVars, chunkVars>>
exceptNorm == <<rrfVars, idxVars, aggVars, bm25Vars, askVars, answerVars, compareVars, genVars, extractVars, chunkVars>>
exceptChunk == <<rrfVars, idxVars, aggVars, bm25Vars, askVars, answerVars, compareVars, genVars, extractVars, normVars>>

-----------------------------------------------------------------------------
(* Generic helpers *)

Range(s) == {s[k] : k \in 1..Len(s)}

Min(a, b) == IF a <= b THEN a ELSE b

\* The injective sequences over S of length at most n.
RECURSIVE InjSeqs(_, _)
InjSeqs(S, n) ==
    IF n = 0 THEN {<<>>}
    ELSE LET shorter == InjSeqs(S, n - 1)
         IN shorter \cup
            UNION {{Append(s, x) : x \in S \ Range(s)} : s \in shorter}

\* The position of x in s (x is in s).
IndexOf(s, x) == CHOOSE k \in 1..Len(s) : s[k] = x

-----------------------------------------------------------------------------
(* HybridRetriever._merge_results *)

\* Bounds of the retrieval model.
MaxChunkId == 3
MaxResults == 3
MaxTopK == 4

\* k = 60, the Reciprocal Rank Fusion constant.
RRF_K == 60

\* str(chunk.id) for the ids of the model, and int(chunk_id), its inverse.
Digits == <<"1", "2", "3", "4", "5", "6", "7", "8", "9">>
StrOfInt(i) == Digits[i]
IntOfStr(s) == CHOOSE i \in 1..Len(Digits) : Digits[i] = s

\* Scores are kept multiplied by ScoreScale, a common multiple of K + rank
\* for every rank a list of the model can hold.
RECURSIVE ScaleUpTo(_)
ScaleUpTo(n) == IF n = 0 THEN 1 ELSE (RRF_K + n) * ScaleUpTo(n - 1)
ScoreScale == ScaleUpTo(MaxResults)

\* A chunk of the lexical corpus (what BM25Index.search returns).
CorpusChunk(i) ==
    [id |-> i, doc_id |-> 1, chunk_index |-> i, chunk_text |-> "text",
     chunk_type |-> "paragraph", citation |-> "p1"]

\* The metadata VectorIndex.build stores with id i.
Metadata(i) == [doc_id |-> "1", chunk_type |-> "paragraph", citation |-> "p1"]

\* A vector result (chunk_id, score, metadata); the score is never read.
VectorResult(i) == [chunk_id |-> StrOfInt(i), metadata |-> Metadata(i)]

\* 1.0 / (k + rank), scaled (a mutant: the rank taken 0-based).
RankContributionZeroBased(rank) == ScoreScale \div (RRF_K + rank - 1)
RankContribution(rank) == ScoreScale \div (RRF_K + rank)

\* chunk_scores.get(chunk_id, 0)
ScoreGet(cid) == IF cid \in DOMAIN chunk_scores THEN chunk_scores[cid] ELSE 0

\* ChunkModel(id=int(chunk_id), ...): the chunk recreated from metadata.
ChunkFromMetadata(cid, metadata) ==
    [id |-> IntOfStr(cid), doc_id |-> IntOfStr(metadata.doc_id), chunk_index |-> 0,
     chunk_text |-> "", chunk_type |-> metadata.chunk_type,
     citation |-> metadata.citation]

RRFInit ==
    /\ bm25_results \in {[k \in 1..Len(s) |-> CorpusChunk(s[k])] :
                            s \in InjSeqs(1..MaxChunkId, MaxResults)}
    /\ vector_results \in {[k \in 1..Len(s) |-> VectorResult(s[k])] :
                            s \in InjSeqs(1..MaxChunkId, MaxResults)}
    /\ top_k \in 1..MaxTopK
    /\ chunk_lookup = <<>>
    /\ score_keys = <<>>
    /\ chunk_scores = <<>>
    /\ rrank = 0
    /\ results = <<>>
    /\ rpc = "start"

RRFIdle ==
    /\ bm25_results = <<>>
    /\ vector_results = <<>>
    /\ top_k = 0
    /\ chunk_lookup = <<>>
    /\ score_keys = <<>>
    /\ chunk_scores = <<>>
    /\ rrank = 0
    /\ results = <<>>
    /\ rpc = "idle"

\* chunk_lookup = {str(chunk.id): chunk for chunk, _ in bm25_results}
BuildLookup ==
    /\ rpc = "start"
    /\ chunk_lookup' = [cid \in {StrOfInt(bm25_results[k].id) :
                                    k \in 1..Len(bm25_results)} |->
                          bm25_results[IndexOf([k \in 1..Len(bm25_results) |->
                              StrOfInt(bm25_results[k].id)], cid)]]
    /\ rrank' = 1
    /\ rpc' = "bm25"
    /\ UNCHANGED <<bm25_results, vector_results, top_k, score_keys,
                   chunk_scores, results>>

\* chunk_scores[cid] = chunk_scores.get(cid, 0) + 1.0 / (k + rank): the
\* new values and the new key order of the dict.
ScoresWith(cid, rank) ==
    [c \in DOMAIN chunk_scores \cup {cid} |->
        IF c = cid THEN ScoreGet(cid) + RankContribution(rank)
        ELSE chunk_scores[c]]

KeysWith(cid) ==
    IF cid \in Range(score_keys) THEN score_keys ELSE Append(score_keys, cid)

\* One iteration of "for rank, (chunk, score) in enumerate(bm25_results, 1)".
AddBM25Score ==
    /\ rpc = "bm25"
    /\ rrank <= Len(bm25_results)
    /\ LET cid == StrOfInt(bm25_results[rrank].id)
       IN /\ chunk_scores' = ScoresWith(cid, rrank)
          /\ score_keys' = KeysWith(cid)
    /\ rrank' = rrank + 1
    /\ UNCHANGED <<bm25_results, vector_results, top_k, chunk_lookup,
                   results, rpc>>

BM25LoopEnd ==
    /\ rpc = "bm25"
    /\ rrank > Len(bm25_results)
    /\ rrank' = 1
    /\ rpc' = "vector"
    /\ UNCHANGED <<bm25_results, vector_results, top_k, chunk_lookup,
                   score_keys, chunk_scores, results>>

\* The lookup after a vector result: the chunk is recreated from the
\* metadata when the id is not there (a mutant: the lookup left alone).
LookupUnchanged(cid, metadata) == chunk_lookup
LookupWith(cid, metadata) ==
    IF cid \in DOMAIN chunk_lookup THEN chunk_lookup
    ELSE [c \in DOMAIN chunk_lookup \cup {cid} |->
            IF c = cid THEN ChunkFromMetadata(cid, metadata)
            ELSE chunk_lookup[c]]

\* One iteration of "for rank, (chunk_id, score, metadata) in
\* enumerate(vector_results, 1)".
AddVectorScore ==
    /\ rpc = "vector"
    /\ rrank <= Len(vector_results)
    /\ LET cid == vector_results[rrank].chunk_id
       IN /\ chunk_scores' = ScoresWith(cid, rrank)
          /\ score_keys' = KeysWith(cid)
          /\ chunk_lookup' = LookupWith(cid, vector_results[rrank].metadata)
    /\ rrank' = rrank + 1
    /\ UNCHANGED <<bm25_results, vector_results, top_k, results, rpc>>

VectorLoopEnd ==
    /\ rpc = "vector"
    /\ rrank > Len(vector_results)
    /\ rpc' = "sort"
    /\ UNCHANGED <<bm25_results, vector_results, top_k, chunk_lookup,
                   score_keys, chunk_scores, rrank, results>>

\* sorted(..., key=score, reverse=True): a stable sort, so that items of
\* equal score keep the order of the dict. x goes behind every item whose
\* score is at least x's (a mutant: ascending order).
RECURSIVE InsertAscending(_, _, _)
InsertAscending(sorted, x, score) ==
    IF sorted = <<>> THEN <<x>>
    ELSE IF score[Head(sorted)] <= score[x]
         THEN <<Head(sorted)>> \o InsertAscending(Tail(sorted), x, score)
         ELSE <<x>> \o sorted

RECURSIVE InsertDescending(_, _, _)
InsertDescending(sorted, x, score) ==
    IF sorted = <<>> THEN <<x>>
    ELSE IF score[Head(sorted)] >= score[x]
         THEN <<Head(sorted)>> \o InsertDescending(Tail(sorted), x, score)
         ELSE <<x>> \o sorted

RECURSIVE SortedDescending(_, _)
SortedDescending(keys, score) ==
    IF keys = <<>> THEN <<>>
    ELSE InsertDescending(
             SortedDescending(SubSeq(keys, 1, Len(keys) - 1), score),
             keys[Len(keys)], score)

\* The comprehension "... for chunk_id, score in sorted_chunks
\* if chunk_id in chunk_lookup".
RECURSIVE LookedUp(_)
LookedUp(keys) ==
    IF keys = <<>> THEN <<>>
    ELSE (IF Head(keys) \in DOMAIN chunk_lookup
          THEN <<[chunk |-> chunk_lookup[Head(keys)],
                  score |-> chunk_scores[Head(keys)]]>>
          ELSE <<>>) \o LookedUp(Tail(keys))

\* sorted(...)[:top_k] and the result list.
SortAndReturn ==
    /\ rpc = "sort"
    /\ LET sorted_chunks == SortedDescending(score_keys, chunk_scores)
       IN results' = LookedUp(SubSeq(sorted_chunks, 1,
                                     Min(top_k, Len(sorted_chunks))))
    /\ rpc' = "done"
    /\ UNCHANGED <<bm25_results, vector_results, top_k, chunk_lookup,
                   score_keys, chunk_scores, rrank>>

RRFNext ==
    \/ BuildLookup /\ UNCHANGED exceptRRF
    \/ AddBM25Score /\ UNCHANGED exceptRRF
    \/ BM25LoopEnd /\ UNCHANGED exceptRRF
    \/ AddVectorScore /\ UNCHANGED exceptRRF
    \/ VectorLoopEnd /\ UNCHANGED exceptRRF
    \/ SortAndReturn /\ UNCHANGED exceptRRF

-----------------------------------------------------------------------------
(* Claims about HybridRetriever._merge_results (checked under SpecRRF) *)

BM25Ids == [k \in 1..Len(bm25_results) |-> StrOfInt(bm25_results[k].id)]
VectorIds == [k \in 1..Len(vector_results) |-> vector_results[k].chunk_id]
AllIds == Range(BM25Ids) \cup Range(VectorIds)
ResultIds == {StrOfInt(results[k].chunk.id) : k \in 1..Len(results)}

\* The sum, over the lists that hold cid, of ScoreScale / (60 + rank).
ExpectedScore(cid) ==
    (IF cid \in Range(BM25Ids)
     THEN ScoreScale \div (60 + IndexOf(BM25Ids, cid)) ELSE 0)
    + (IF cid \in Range(VectorIds)
       THEN ScoreScale \div (60 + IndexOf(VectorIds, cid)) ELSE 0)

\* C1: when _merge_results has returned, the fused score of every chunk id
\* is the sum, over the input lists that hold the id, of 1 / (60 + rank)
\* with rank the 1-based position in the list: an id at rank 1 of both
\* lists has 2 / 61, an id of one list only that list's contribution.
C1_FusedScoreIsRankSum ==
    rpc = "done" =>
        /\ DOMAIN chunk_scores = AllIds
        /\ \A cid \in AllIds : chunk_scores[cid] = ExpectedScore(cid)
        /\ \A k \in 1..Len(results) :
              results[k].score = ExpectedScore(StrOfInt(results[k].chunk.id))
        /\ \A cid \in AllIds :
              (BM25Ids # <<>> /\ VectorIds # <<>>
               /\ BM25Ids[1] = cid /\ VectorIds[1] = cid)
                  => chunk_scores[cid] * 61 = 2 * ScoreScale

\* C1 witness: a finished merge with an id at rank 1 of both lists and an
\* id that only the vector list holds, both returned.
C1_Witness ==
    /\ rpc = "done"
    /\ Len(bm25_results) >= 1 /\ Len(vector_results) >= 2
    /\ BM25Ids[1] = VectorIds[1]
    /\ VectorIds[2] \notin Range(BM25Ids)
    /\ {BM25Ids[1], VectorIds[2]} \subseteq ResultIds

\* The place of an id in the dict chunk_scores: the BM25 results in their
\* order, then the ids only the vector results hold, in their order.
FirstAppearance(cid) ==
    IF cid \in Range(BM25Ids) THEN IndexOf(BM25Ids, cid)
    ELSE Len(BM25Ids) + IndexOf(VectorIds, cid)

\* The best (lowest) rank of an id in either list.
BestRank(cid) ==
    IF cid \in Range(BM25Ids) /\ cid \in Range(VectorIds)
    THEN Min(IndexOf(BM25Ids, cid), IndexOf(VectorIds, cid))
    ELSE IF cid \in Range(BM25Ids) THEN IndexOf(BM25Ids, cid)
    ELSE IndexOf(VectorIds, cid)

ResultId(k) == StrOfInt(results[k].chunk.id)

\* C2 (amended): the fused output is ordered by summed score descending,
\* and chunks of equal summed score keep the order in which their ids
\* were first met: the BM25 results in BM25 order, then the ids only the
\* vector results hold, in vector order.
C2_OrderedByScoreThenFirstAppearance ==
    rpc = "done" =>
        \A p, q \in 1..Len(results) :
            p < q =>
                \/ results[p].score > results[q].score
                \/ /\ results[p].score = results[q].score
                   /\ FirstAppearance(ResultId(p)) < FirstAppearance(ResultId(q))

\* C2 witness: a finished merge that returns two chunks of equal score.
C2_Witness ==
    /\ rpc = "done"
    /\ \E p, q \in 1..Len(results) :
          p < q /\ results[p].score = results[q].score

\* C2 as claimed: the output is ordered by summed score descending, chunks
\* of equal score by their best rank in either list, and chunks still tied
\* by chunk id.
C2_OrderedByScoreRankId ==
    rpc = "done" =>
        \A p, q \in 1..Len(results) :
            p < q =>
                \/ results[p].score > results[q].score
                \/ /\ results[p].score = results[q].score
                   /\ \/ BestRank(ResultId(p)) < BestRank(ResultId(q))
                      \/ /\ BestRank(ResultId(p)) = BestRank(ResultId(q))
                         /\ results[p].chunk.id < results[q].chunk.id

\* C3: when top_k is at least the number of distinct ids, the chunk ids of
\* the output of _merge_results are exactly the chunk ids of the BM25
\* results and of the vector results together.
C3_OutputIsUnion ==
    (rpc = "done" /\ top_k >= Cardinality(AllIds)) =>
        /\ ResultIds = AllIds
        /\ Len(results) = Cardinality(AllIds)

\* C3 witness: a finished merge, top_k large enough, with an id only the
\* BM25 list holds and an id only the vector list holds.
C3_Witness ==
    /\ rpc = "done"
    /\ top_k >= Cardinality(AllIds)
    /\ Range(BM25Ids) \ Range(VectorIds) # {}
    /\ Range(VectorIds) \ Range(BM25Ids) # {}

\* The returned chunks whose id only the vector results hold.
VectorOnlyResults ==
    {k \in 1..Len(results) : ResultId(k) \notin Range(BM25Ids)}

\* C11: a vector result whose chunk id is not among the BM25 results never
\* makes _merge_results fail: the returned chunk is built from the metadata
\* of the vector store (id, doc_id, chunk_type, citation) and its text is an
\* explicit "text unavailable" sentinel, that is, a text that says so and
\* not an empty one.
C11_VectorOnlyChunkHasSentinel ==
    rpc = "done" =>
        \A k \in VectorOnlyResults :
            LET m == vector_results[IndexOf(VectorIds, ResultId(k))].metadata
            IN /\ results[k].chunk.id = IntOfStr(ResultId(k))
               /\ results[k].chunk.doc_id = IntOfStr(m.doc_id)
               /\ results[k].chunk.chunk_type = m.chunk_type
               /\ results[k].chunk.citation = m.citation
               /\ results[k].chunk.chunk_text # ""

-----------------------------------------------------------------------------
(* VectorIndex.build with embed_batch, and VectorIndex.search *)

\* Bounds of the index model.
MaxIndexChunks == 3
MaxBatchSize == 2

\* fallback_dim = 768, the default dimension of embed_batch's placeholders.
DefaultFallbackDim == 768

\* The dimensions of the embedding models a configuration may name
\* (all-minilm, nomic-embed-text, mxbai-embed-large).
ModelDims == {384, 768, 1024}

\* A vector is modelled by its length and by whether it is a placeholder.
RealVector(dim) == [dim |-> dim, zero |-> FALSE]
ZeroVector(dim) == [dim |-> dim, zero |-> TRUE]

\* n copies of v: [v] * n
Copies(v, n) == [k \in 1..n |-> v]

\* The ids a query of the collection can return.
CollectionIds == {collection[k].id : k \in 1..Len(collection)}

IndexInit ==
    /\ old_contents \in SUBSET (1..MaxIndexChunks)
    /\ \E s \in InjSeqs(1..MaxIndexChunks, MaxIndexChunks) :
          /\ Range(s) = old_contents
          /\ \A k \in 1..Len(s) - 1 : s[k] < s[k + 1]
          /\ \E d \in ModelDims :
                /\ model_dim = d
                /\ collection = [k \in 1..Len(s) |->
                                    [id |-> s[k], dim |-> d]]
    /\ \E n \in 1..MaxIndexChunks : chunks = [k \in 1..n |-> k]
    /\ batch_size \in 1..MaxBatchSize
    /\ embeddings = <<>>
    /\ bi = 0
    /\ seen = old_contents
    /\ ipc = "start"

IndexIdle ==
    /\ old_contents = {}
    /\ collection = <<>>
    /\ model_dim = DefaultFallbackDim
    /\ chunks = <<>>
    /\ batch_size = 1
    /\ embeddings = <<>>
    /\ bi = 0
    /\ seen = {}
    /\ ipc = "idle"

\* client.delete_collection("chunks") and get_or_create_collection(...).
ClearCollection ==
    /\ ipc = "start"
    /\ collection' = <<>>
    /\ ipc' = "health"
    /\ UNCHANGED <<old_contents, chunks, batch_size, model_dim, embeddings,
                   bi, seen>>

\* embed_batch: "if not client.check_health(): raise RuntimeError"; build
\* does not catch it.
EmbedUnhealthy ==
    /\ ipc = "health"
    /\ ipc' = "failed"
    /\ UNCHANGED <<collection, old_contents, chunks, batch_size, model_dim,
                   embeddings, bi, seen>>

EmbedHealthy ==
    /\ ipc = "health"
    /\ embeddings' = <<>>
    /\ bi' = 0
    /\ ipc' = "embed"
    /\ UNCHANGED <<collection, old_contents, chunks, batch_size, model_dim,
                   seen>>

\* len(texts[i:i+batch_size])
BatchLen(i) == Min(i + batch_size, Len(chunks)) - i

\* The try branch: embeddings.extend(client.embed(batch, model)).
EmbedBatchOk ==
    /\ ipc = "embed"
    /\ bi < Len(chunks)
    /\ embeddings' = embeddings \o Copies(RealVector(model_dim), BatchLen(bi))
    /\ bi' = bi + batch_size
    /\ UNCHANGED <<collection, old_contents, chunks, batch_size, model_dim,
                   seen, ipc>>

\* fallback_dim = 768; if embeddings: fallback_dim = len(embeddings[0])
FallbackDim ==
    IF embeddings # <<>> THEN embeddings[1].dim ELSE DefaultFallbackDim

\* The except branch: embeddings.extend([[0.0] * fallback_dim] * len(batch)).
EmbedBatchFails ==
    /\ ipc = "embed"
    /\ bi < Len(chunks)
    /\ embeddings' = embeddings \o Copies(ZeroVector(FallbackDim), BatchLen(bi))
    /\ bi' = bi + batch_size
    /\ UNCHANGED <<collection, old_contents, chunks, batch_size, model_dim,
                   seen, ipc>>

\* embed_batch returns; build goes on to its add loop.
EmbedReturn ==
    /\ ipc = "embed"
    /\ bi >= Len(chunks)
    /\ bi' = 0
    /\ ipc' = "add"
    /\ UNCHANGED <<collection, old_contents, chunks, batch_size, model_dim,
                   embeddings, seen>>

\* The dimensions the store accepts for a batch: one dimension, that of
\* the vectors the collection already holds.
BatchAccepted(i) ==
    LET dims == {embeddings[k].dim : k \in (i + 1)..(i + BatchLen(i))}
                  \cup {collection[k].dim : k \in 1..Len(collection)}
    IN Cardinality(dims) = 1

\* self.collection.add(ids=ids[i:end_idx], embeddings=embeddings[i:end_idx])
AddBatch ==
    /\ ipc = "add"
    /\ bi < Len(chunks)
    /\ BatchAccepted(bi)
    /\ collection' = collection \o
           [k \in 1..BatchLen(bi) |->
               [id |-> chunks[bi + k], dim |-> embeddings[bi + k].dim]]
    /\ bi' = bi + batch_size
    /\ UNCHANGED <<old_contents, chunks, batch_size, model_dim, embeddings,
                   seen, ipc>>

\* collection.add raises (the store refuses the batch, or fails); build
\* does not catch it.
AddBatchRaises ==
    /\ ipc = "add"
    /\ bi < Len(chunks)
    /\ ipc' = "failed"
    /\ UNCHANGED <<collection, old_contents, chunks, batch_size, model_dim,
                   embeddings, bi, seen>>

BuildDone ==
    /\ ipc = "add"
    /\ bi >= Len(chunks)
    /\ ipc' = "done"
    /\ UNCHANGED <<collection, old_contents, chunks, batch_size, model_dim,
                   embeddings, bi, seen>>

\* VectorIndex.search by a reader: the ids of collection.query(...).
Search ==
    /\ seen' = CollectionIds
    /\ UNCHANGED <<collection, old_contents, chunks, batch_size, model_dim,
                   embeddings, bi, ipc>>

IndexNext ==
    \/ ClearCollection /\ UNCHANGED exceptIndex
    \/ EmbedUnhealthy /\ UNCHANGED exceptIndex
    \/ EmbedHealthy /\ UNCHANGED exceptIndex
    \/ EmbedBatchOk /\ UNCHANGED exceptIndex
    \/ EmbedBatchFails /\ UNCHANGED exceptIndex
    \/ EmbedReturn /\ UNCHANGED exceptIndex
    \/ AddBatch /\ UNCHANGED exceptIndex
    \/ AddBatchRaises /\ UNCHANGED exceptIndex
    \/ BuildDone /\ UNCHANGED exceptIndex
    \/ Search /\ UNCHANGED exceptIndex

-----------------------------------------------------------------------------
(* Claims about VectorIndex.build and embed_batch (checked under SpecIndex) *)

\* C4: rebuilding the vector index is atomic for a reader: at every point
\* of build, also when it fails part-way, a search sees either the complete
\* old contents or the complete new contents, never an empty or partially
\* filled collection.
C4_SearchSeesOldOrNew ==
    seen = old_contents \/ seen = Range(chunks)

\* C5: all vectors returned by one embed_batch call share one dimension,
\* whichever batches failed (also when the first batch is the failing one).
C5_OneDimension ==
    ipc \in {"add", "done"} =>
        \A a, b \in 1..Len(embeddings) : embeddings[a].dim = embeddings[b].dim

-----------------------------------------------------------------------------
(* cluster_requirements, select_most_representative, build_families *)

\* Bounds of the aggregation model.
MaxReqs == 4
MaxRuns == 2

\* The embedding vectors of the model. The real ones have one common
\* squared norm, EmbNormSq, so that a cosine similarity is the dot product
\* over EmbNormSq; the zero vector is embed_batch's placeholder.
ZeroEmb == <<0, 0, 0>>
EmbSet == {<<0, 0, 3>>, <<0, 3, 0>>, <<2, 2, 1>>, ZeroEmb}

\* The values of config.clustering_threshold, times EmbNormSq.
Thresholds == {3, 6}

\* The values of config.min_cluster_size.
MinClusterSizes == {1, 2}

Dot(u, v) == u[1] * v[1] + u[2] * v[2] + u[3] * v[3]
NormSq(u) == Dot(u, u)
EmbNormSq == NormSq(<<0, 0, 3>>)

\* similarities[i, j] of cosine_similarity(embeddings_array), times
\* EmbNormSq; a zero row has similarity 0 to every row.
Similarity(i, j) ==
    IF req_embeddings[i] = ZeroEmb \/ req_embeddings[j] = ZeroEmb THEN 0
    ELSE Dot(req_embeddings[i], req_embeddings[j])

\* The chunk of requirement i (requirement.chunk_id) and that chunk's
\* document (chunk.doc_id) in the store.
ChunkOfReq(i) == i + 1
DocOfChunk(c) == (c % 2) + 1

\* requirement.id of item i of db.get_all_requirements()
ReqId(i) == i + 1

RECURSIVE SumSeq(_)
SumSeq(s) == IF s = <<>> THEN 0 ELSE Head(s) + SumSeq(Tail(s))

\* compute_cluster_similarity: the list "similarities" of the nested loop.
RECURSIVE CrossSimilarities(_, _)
CrossSimilarities(cluster1, cluster2) ==
    IF cluster1 = <<>> THEN <<>>
    ELSE [k \in 1..Len(cluster2) |-> Similarity(Head(cluster1), cluster2[k])]
         \o CrossSimilarities(Tail(cluster1), cluster2)

\* compute_cluster_similarity: np.mean(similarities), or 0.0 for an empty
\* list, as the fraction num / den (times 1 / EmbNormSq).
compute_cluster_similarity(cluster1, cluster2) ==
    LET similarities == CrossSimilarities(cluster1, cluster2)
    IN IF similarities # <<>>
       THEN [num |-> SumSeq(similarities), den |-> Len(similarities)]
       ELSE [num |-> 0, den |-> 1]

\* "if avg_sim >= threshold" (a mutant: a strict comparison).
ExceedsThresholdStrictly(avg_sim) == avg_sim.num > threshold * avg_sim.den
ExceedsThreshold(avg_sim) == avg_sim.num >= threshold * avg_sim.den

\* s without the element x
RECURSIVE Without(_, _)
Without(s, x) ==
    IF s = <<>> THEN <<>>
    ELSE IF Head(s) = x THEN Without(Tail(s), x)
         ELSE <<Head(s)>> \o Without(Tail(s), x)

\* clusters[cluster_i].extend(clusters[cluster_j]); del clusters[cluster_j]
\* (a mutant: the absorbed cluster is not deleted).
MergedClustersKeepBoth(a, b) ==
    [k \in DOMAIN clusters |->
        IF k = a THEN clusters[a] \o clusters[b] ELSE clusters[k]]
MergedClusters(a, b) ==
    [k \in DOMAIN clusters \ {b} |->
        IF k = a THEN clusters[a] \o clusters[b] ELSE clusters[k]]

\* get_cluster_centroid: np.mean(cluster_embeddings, axis=0), kept as the
\* sum of the member vectors (the mean times the number of members: a
\* cosine similarity does not change with the length of a vector).
RECURSIVE CentroidSum(_)
CentroidSum(cluster_members) ==
    IF cluster_members = <<>> THEN ZeroEmb
    ELSE LET e == req_embeddings[Head(cluster_members)]
             rest == CentroidSum(Tail(cluster_members))
         IN <<e[1] + rest[1], e[2] + rest[2], e[3] + rest[3]>>

\* cosine_similarity([embeddings[idx]], [centroid]) as the numerator over
\* the denominator sqrt(EmbNormSq * NormSq(centroid)), which is the same
\* for every member of one cluster; 0 when either vector is zero.
SimToCentroid(idx, centroid) ==
    IF req_embeddings[idx] = ZeroEmb \/ centroid = ZeroEmb THEN 0
    ELSE Dot(req_embeddings[idx], centroid)

\* sim > -1.0, the first comparison of the loop against best_sim = -1.0
AboveMinusOne(sim, centroid) ==
    ~(sim < 0 /\ sim * sim = EmbNormSq * NormSq(centroid))

\* The loop of select_most_representative: best = [idx, sim, init], with
\* init telling that best_sim still is the initial -1.0
\* (a mutant: "if sim >= best_sim").
RECURSIVE SelectLoopLast(_, _, _)
SelectLoopLast(members, centroid, best) ==
    IF members = <<>> THEN best.idx
    ELSE LET idx == Head(members)
             sim == SimToCentroid(idx, centroid)
             better == IF best.init THEN TRUE ELSE sim >= best.sim
         IN SelectLoopLast(Tail(members), centroid,
                IF better THEN [idx |-> idx, sim |-> sim, init |-> FALSE]
                ELSE best)

RECURSIVE SelectLoop(_, _, _)
SelectLoop(members, centroid, best) ==
    IF members = <<>> THEN best.idx
    ELSE LET idx == Head(members)
             sim == SimToCentroid(idx, centroid)
             better == IF best.init THEN AboveMinusOne(sim, centroid)
                       ELSE sim > best.sim
         IN SelectLoop(Tail(members), centroid,
                IF better THEN [idx |-> idx, sim |-> sim, init |-> FALSE]
                ELSE best)

select_most_representative(cluster_members) ==
    SelectLoop(cluster_members, CentroidSum(cluster_members),
               [idx |-> cluster_members[1], sim |-> 0, init |-> TRUE])

NoEval == [a |-> -1, b |-> -1, before |-> <<>>]

AggInit ==
    /\ requirements \in 0..MaxReqs
    /\ req_embeddings \in [0..(requirements - 1) -> EmbSet]
    /\ threshold \in Thresholds
    /\ min_cluster_size \in MinClusterSizes
    /\ clusters = <<>>
    /\ cluster_keys = <<>>
    /\ cluster_ids = <<>>
    /\ ci = 0
    /\ cj = 0
    /\ changed = FALSE
    /\ iteration = 0
    /\ last_eval = NoEval
    /\ todo = <<>>
    /\ req_families = <<>>
    /\ req_family_members = <<>>
    /\ stats = [families_created |-> 0, requirements_clustered |-> 0]
    /\ runs = 0
    /\ apc = "idle"

AggIdle ==
    /\ requirements = 0
    /\ req_embeddings = <<>>
    /\ threshold = 0
    /\ min_cluster_size = 0
    /\ clusters = <<>>
    /\ cluster_keys = <<>>
    /\ cluster_ids = <<>>
    /\ ci = 0
    /\ cj = 0
    /\ changed = FALSE
    /\ iteration = 0
    /\ last_eval = NoEval
    /\ todo = <<>>
    /\ req_families = <<>>
    /\ req_family_members = <<>>
    /\ stats = [families_created |-> 0, requirements_clustered |-> 0]
    /\ runs = 0
    /\ apc = "off"

config == <<requirements, req_embeddings, threshold, min_cluster_size>>
tables == <<req_families, req_family_members>>
loopVars == <<cluster_ids, ci, cj, changed, iteration, last_eval>>

\* The aggregate command calls build_families, which loads the
\* requirements; with none it returns at once.
StartBuild ==
    /\ apc \in {"idle", "done", "failed"}
    /\ runs < MaxRuns
    /\ runs' = runs + 1
    /\ stats' = [families_created |-> 0, requirements_clustered |-> 0]
    /\ clusters' = <<>>
    /\ cluster_keys' = <<>>
    /\ cluster_ids' = <<>>
    /\ ci' = 0
    /\ cj' = 0
    /\ changed' = FALSE
    /\ iteration' = 0
    /\ last_eval' = NoEval
    /\ todo' = <<>>
    /\ apc' = IF requirements = 0 THEN "done" ELSE "embed"
    /\ UNCHANGED <<config, tables>>

\* embed_batch raises (the embedding service is not running).
EmbedRaises ==
    /\ apc = "embed"
    /\ apc' = "failed"
    /\ UNCHANGED <<config, tables, clusters, cluster_keys, loopVars, todo,
                   stats, runs>>

\* embed_batch returns; cluster_requirements starts with
\* clusters = {i: [i] for i in range(len(requirements))}.
InitClusters ==
    /\ apc = "embed"
    /\ clusters' = [i \in 0..(requirements - 1) |-> <<i>>]
    /\ cluster_keys' = [k \in 1..requirements |-> k - 1]
    /\ changed' = TRUE
    /\ iteration' = 0
    /\ apc' = "while"
    /\ UNCHANGED <<config, tables, cluster_ids, ci, cj, last_eval, todo,
                   stats, runs>>

\* "while changed:" entered: changed = False; iteration += 1;
\* cluster_ids = list(keys).
PassStart ==
    /\ apc = "while"
    /\ changed
    /\ changed' = FALSE
    /\ iteration' = iteration + 1
    /\ cluster_ids' = cluster_keys
    /\ ci' = 0
    /\ cj' = 1
    /\ last_eval' = NoEval
    /\ apc' = "pass"
    /\ UNCHANGED <<config, tables, clusters, cluster_keys, todo, stats, runs>>

\* The loop indices after the pair (ci, cj): "for i in range(len(ids)):
\* for j in range(i + 1, len(ids))" (a mutant: the inner loop ends after
\* its first pair).
NextPairEndsRow == <<ci + 1, ci + 2>>
NextPair ==
    IF cj + 1 < Len(cluster_ids) THEN <<ci, cj + 1>> ELSE <<ci + 1, ci + 2>>

PairLeft == apc = "pass" /\ cj < Len(cluster_ids)
cluster_i == cluster_ids[ci + 1]
cluster_j == cluster_ids[cj + 1]
BothLive == cluster_i \in DOMAIN clusters /\ cluster_j \in DOMAIN clusters

Advance ==
    /\ ci' = NextPair[1]
    /\ cj' = NextPair[2]
    /\ last_eval' = [a |-> cluster_i, b |-> cluster_j, before |-> clusters]

\* "if cluster_i not in clusters or cluster_j not in clusters: continue"
SkipPair ==
    /\ PairLeft
    /\ ~BothLive
    /\ Advance
    /\ UNCHANGED <<config, tables, clusters, cluster_keys, cluster_ids,
                   changed, iteration, todo, stats, runs, apc>>

\* The pair is evaluated and merged.
MergePair ==
    /\ PairLeft
    /\ BothLive
    /\ ExceedsThreshold(compute_cluster_similarity(clusters[cluster_i],
                                                   clusters[cluster_j]))
    /\ clusters' = MergedClusters(cluster_i, cluster_j)
    /\ cluster_keys' = Without(cluster_keys, cluster_j)
    /\ changed' = TRUE
    /\ Advance
    /\ UNCHANGED <<config, tables, cluster_ids, iteration, todo, stats, runs,
                   apc>>

\* The pair is evaluated and left alone.
KeepPair ==
    /\ PairLeft
    /\ BothLive
    /\ ~ExceedsThreshold(compute_cluster_similarity(clusters[cluster_i],
                                                    clusters[cluster_j]))
    /\ Advance
    /\ UNCHANGED <<config, tables, clusters, cluster_keys, cluster_ids,
                   changed, iteration, todo, stats, runs, apc>>

PassEnd ==
    /\ apc = "pass"
    /\ cj >= Len(cluster_ids)
    /\ apc' = "while"
    /\ UNCHANGED <<config, tables, clusters, cluster_keys, loopVars, todo,
                   stats, runs>>

\* final_clusters: the clusters in the order of the dict, the new id of a
\* cluster being its position minus one.
FinalClusters == [k \in 1..Len(cluster_keys) |-> clusters[cluster_keys[k]]]

\* The loop ends; cluster_requirements returns final_clusters.
ReturnClusters ==
    /\ apc = "while"
    /\ ~changed
    /\ todo' = FinalClusters
    /\ apc' = "filter"
    /\ UNCHANGED <<config, tables, clusters, cluster_keys, loopVars, stats,
                   runs>>

RECURSIVE AtLeast(_, _)
AtLeast(cs, size) ==
    IF cs = <<>> THEN <<>>
    ELSE (IF Len(Head(cs)) >= size THEN <<Head(cs)>> ELSE <<>>)
         \o AtLeast(Tail(cs), size)

\* "if config.min_cluster_size > 1: clusters = {... if len(members) >=
\* config.min_cluster_size}" (a mutant: no filter).
FilteredNot(cs) == cs
Filtered(cs) ==
    IF min_cluster_size > 1 THEN AtLeast(cs, min_cluster_size) ELSE cs

FilterClusters ==
    /\ apc = "filter"
    /\ todo' = Filtered(todo)
    /\ apc' = "families"
    /\ UNCHANGED <<config, tables, clusters, cluster_keys, loopVars, stats,
                   runs>>

\* len(doc_ids): the documents of the chunks of the cluster's requirements
DocCount(member_indices) ==
    Cardinality({DocOfChunk(ChunkOfReq(member_indices[k])) :
                    k \in 1..Len(member_indices)})

\* The rows insert_family_members writes for one family.
MemberRows(family_id, member_indices) ==
    LET centroid == CentroidSum(member_indices)
    IN [k \in 1..Len(member_indices) |->
          [family_id |-> family_id,
           requirement_id |-> ReqId(member_indices[k]),
           similarity_score |->
               [num |-> SimToCentroid(member_indices[k], centroid),
                densq |-> EmbNormSq * NormSq(centroid)]]]

\* One iteration of "for cluster_id, member_indices in clusters.items()":
\* insert_family, then insert_family_members.
CreateFamily ==
    /\ apc = "families"
    /\ todo # <<>>
    /\ LET member_indices == Head(todo)
           family_id == Len(req_families) + 1
       IN /\ req_families' = Append(req_families,
                 [id |-> family_id,
                  canonical_text |-> select_most_representative(member_indices),
                  member_count |-> Len(member_indices),
                  doc_count |-> DocCount(member_indices),
                  created_at |-> runs])
          /\ req_family_members' =
                 req_family_members \o MemberRows(family_id, member_indices)
          /\ stats' = [families_created |-> stats.families_created + 1,
                       requirements_clustered |->
                           stats.requirements_clustered + Len(member_indices)]
    /\ todo' = Tail(todo)
    /\ UNCHANGED <<config, clusters, cluster_keys, loopVars, runs, apc>>

\* build_families returns stats.
BuildReturn ==
    /\ apc = "families"
    /\ todo = <<>>
    /\ apc' = "done"
    /\ UNCHANGED <<config, tables, clusters, cluster_keys, loopVars, todo,
                   stats, runs>>

AggNext ==
    \/ StartBuild /\ UNCHANGED exceptAgg
    \/ EmbedRaises /\ UNCHANGED exceptAgg
    \/ InitClusters /\ UNCHANGED exceptAgg
    \/ PassStart /\ UNCHANGED exceptAgg
    \/ SkipPair /\ UNCHANGED exceptAgg
    \/ MergePair /\ UNCHANGED exceptAgg
    \/ KeepPair /\ UNCHANGED exceptAgg
    \/ PassEnd /\ UNCHANGED exceptAgg
    \/ ReturnClusters /\ UNCHANGED exceptAgg
    \/ FilterClusters /\ UNCHANGED exceptAgg
    \/ CreateFamily /\ UNCHANGED exceptAgg
    \/ BuildReturn /\ UNCHANGED exceptAgg

-----------------------------------------------------------------------------
(* Claims about cluster_requirements and build_families (under SpecAgg) *)

Items == 0..(requirements - 1)

RECURSIVE SumOver(_)
SumOver(pairs) ==
    IF pairs = {} THEN 0
    ELSE LET p == CHOOSE q \in pairs : TRUE
         IN Similarity(p[1], p[2]) + SumOver(pairs \ {p})

\* The pair of live clusters the last step evaluated, if it evaluated one.
Evaluated ==
    /\ last_eval.a # -1
    /\ last_eval.a \in DOMAIN last_eval.before
    /\ last_eval.b \in DOMAIN last_eval.before

CrossPairs == Range(last_eval.before[last_eval.a])
                  \X Range(last_eval.before[last_eval.b])

\* The last step merged the pair it evaluated.
MergedLast ==
    /\ last_eval.b \notin DOMAIN clusters
    /\ DOMAIN clusters = DOMAIN last_eval.before \ {last_eval.b}
    /\ clusters[last_eval.a] = last_eval.before[last_eval.a]
                                   \o last_eval.before[last_eval.b]

LaterPairs ==
    {p \in (0..(Len(cluster_ids) - 1)) \X (0..(Len(cluster_ids) - 1)) :
        /\ p[1] < p[2]
        /\ (p[1] > ci \/ (p[1] = ci /\ p[2] > cj))}

PairBefore(p, q) == p[1] < q[1] \/ (p[1] = q[1] /\ p[2] <= q[2])

\* The members of the clusters a and b as they are now.
CurrentPairs(a, b) == Range(clusters[a]) \X Range(clusters[b])

\* A pass begins: the ids listed are the live clusters in ascending order,
\* and the first pair is (0, 1).
PassListsLiveIds ==
    (apc = "while" /\ apc' = "pass") =>
        /\ Range(cluster_ids') = DOMAIN clusters
        /\ \A k \in 1..(Len(cluster_ids') - 1) :
               cluster_ids'[k] < cluster_ids'[k + 1]
        /\ <<ci', cj'>> = <<0, 1>>

\* A step of a pass at the pair (ci, cj) of the ids a < b.
PairStep ==
    (apc = "pass" /\ cj < Len(cluster_ids)) =>
        LET a == cluster_ids[ci + 1]
            b == cluster_ids[cj + 1]
        IN /\ a < b
           /\ cluster_ids' = cluster_ids
           /\ IF LaterPairs = {} THEN cj' >= Len(cluster_ids)
              ELSE /\ <<ci', cj'>> \in LaterPairs
                   /\ \A p \in LaterPairs : PairBefore(<<ci', cj'>>, p)
           /\ IF a \notin DOMAIN clusters \/ b \notin DOMAIN clusters
              THEN clusters' = clusters /\ changed' = changed
              ELSE IF SumOver(CurrentPairs(a, b))
                          >= threshold * Cardinality(CurrentPairs(a, b))
              THEN /\ DOMAIN clusters' = DOMAIN clusters \ {b}
                   /\ clusters'[a] = clusters[a] \o clusters[b]
                   /\ \A k \in DOMAIN clusters' \ {a} :
                          clusters'[k] = clusters[k]
                   /\ changed'
              ELSE clusters' = clusters /\ changed' = changed

\* C27: within one pass the pairs are evaluated in ascending (i, j) order
\* over the cluster ids listed at the start of the pass; when a pair (a, b)
\* with a < b merges, a gets b's members appended and b is deleted, every
\* later pair of the pass that references b is skipped, and later pairs
\* that reference a are evaluated against a's membership as it is then.
C27_PassOrderAndMerge == [][PassListsLiveIds /\ PairStep]_vars

\* C27 witness: in the first pass, a pair whose first cluster had absorbed
\* another one earlier in the pass was evaluated against both members and
\* merged again, and a cluster listed for the pass is deleted.
C27_Witness ==
    /\ apc = "pass"
    /\ Len(cluster_ids) = requirements
    /\ Evaluated
    /\ Len(last_eval.before[last_eval.a]) >= 2
    /\ MergedLast
    /\ \E b \in Range(cluster_ids) : b \notin DOMAIN last_eval.before

\* The members of the clusters at the places k1 and k2 of the returned
\* mapping.
ReturnedPairs(k1, k2) == Range(todo[k1]) \X Range(todo[k2])

\* cluster_requirements has returned and build_families has not gone on.
ClustersReturned == apc = "filter"

Merges == requirements - Cardinality(DOMAIN clusters)

InMergeLoop == apc \in {"while", "pass"}

\* C29: the merge loop terminates for every input and threshold: a pass
\* that has set changed has removed at least one cluster, so for n items
\* there are at most n - 1 merges and at most n passes.
C29_BoundedPasses ==
    (InMergeLoop \/ ClustersReturned) =>
        /\ Merges <= requirements - 1
        /\ iteration <= requirements
        /\ (changed /\ iteration >= 1) =>
               Cardinality(DOMAIN clusters) < Len(cluster_ids)

\* C29 witness: a call with three items or more has returned after as
\* many passes as it has items, each pass but the last with a merge.
C29_Witness ==
    /\ ClustersReturned
    /\ requirements >= 3
    /\ iteration = requirements
    /\ Merges = requirements - 1

\* Every item is at exactly one place of exactly one of the lists cs[k].
IsPartition(cs) ==
    \A i \in Items :
        Cardinality({kp \in {<<k, pos>> : k \in DOMAIN cs, pos \in 1..MaxReqs} :
                        kp[2] <= Len(cs[kp[1]]) /\ cs[kp[1]][kp[2]] = i}) = 1

\* The rows of req_family_members that link requirement r.
RowsOfReq(r) ==
    {k \in 1..Len(req_family_members) :
        req_family_members[k].requirement_id = r}

\* C7: clustering yields a partition: from the start of the merge loop on,
\* after every merge and in the returned mapping, every item index is in
\* exactly one live cluster; within one run a requirement is linked to at
\* most one family, and no (family, requirement) pair is inserted twice.
C7_ClustersPartitionItems ==
    /\ apc \in {"while", "pass", "filter", "families", "done"}
           => IsPartition(clusters)
    /\ apc = "filter" => IsPartition(todo)
    /\ \A k1, k2 \in 1..Len(req_family_members) :
          LET r1 == req_family_members[k1]
              r2 == req_family_members[k2]
          IN (k1 # k2 /\ r1.requirement_id = r2.requirement_id) =>
                /\ r1.family_id # r2.family_id
                /\ req_families[r1.family_id].created_at
                       # req_families[r2.family_id].created_at

\* C7 witness: a run has ended that merged clusters and stored two
\* families, one of them with two members or more.
C7_Witness ==
    /\ apc = "done"
    /\ stats.families_created >= 2
    /\ \E k \in DOMAIN clusters : Len(clusters[k]) >= 2

\* The member list of family f, in the order of its rows, as item indices.
RECURSIVE MembersOf(_, _)
MembersOf(f, rows) ==
    IF rows = <<>> THEN <<>>
    ELSE (IF Head(rows).family_id = f
          THEN <<Head(rows).requirement_id - 1>> ELSE <<>>)
         \o MembersOf(f, Tail(rows))

FamilyMembers(f) == MembersOf(f, req_family_members)

\* The similarity to the centroid of each member of the list, by position.
SimsOf(members) ==
    LET centroid == CentroidSum(members)
    IN [pos \in 1..Len(members) |-> SimToCentroid(members[pos], centroid)]

\* The positions of the list whose member has the highest similarity.
MostSimilar(sims) ==
    {pos \in DOMAIN sims : \A other \in DOMAIN sims : sims[other] <= sims[pos]}

\* C8 (amended): select_most_representative returns a member of the cluster
\* whose embedding has the highest cosine similarity to the centroid; when
\* several members tie for the highest similarity, the one that comes
\* first in the cluster's member list is returned.
C8_RepresentativeIsFirstMostSimilar ==
    \A f \in 1..Len(req_families) :
        LET members == FamilyMembers(f)
            best == MostSimilar(SimsOf(members))
            rep == req_families[f].canonical_text
        IN /\ rep \in {members[pos] : pos \in best}
           /\ \A pos \in best : IndexOf(members, rep) <= pos

\* C8 witness: a stored family whose member list is not in ascending order
\* and in which two members tie for the highest similarity, the first of
\* them in the list not being the one of lowest index.
C8_Witness ==
    \E f \in 1..Len(req_families) :
        LET members == FamilyMembers(f)
            best == MostSimilar(SimsOf(members))
        IN /\ Cardinality(best) >= 2
           /\ \E p, q \in best : p < q /\ members[p] > members[q]
           /\ \A p \in best : req_families[f].canonical_text = members[p]
                                  => \E q \in best : members[q] < members[p]

\* C8 as claimed: the representative has the highest similarity to the
\* centroid and, among the members that tie for it, the lowest item index.
C8_RepresentativeIsLowestMostSimilar ==
    \A f \in 1..Len(req_families) :
        LET members == FamilyMembers(f)
            best == MostSimilar(SimsOf(members))
            rep == req_families[f].canonical_text
        IN /\ rep \in {members[pos] : pos \in best}
           /\ \A pos \in best : rep <= members[pos]

\* C9: every family build_families persists has member_count >=
\* min_cluster_size (a cluster of one member is left out when
\* min_cluster_size is 2 and persisted when it is 1), and families_created
\* is the number of clusters whose size is >= min_cluster_size.
C9_FamiliesMeetMinClusterSize ==
    /\ \A f \in 1..Len(req_families) :
          /\ req_families[f].member_count >= min_cluster_size
          /\ req_families[f].member_count = Len(FamilyMembers(f))
    /\ apc = "done" =>
          /\ stats.families_created =
                 Cardinality({k \in DOMAIN clusters :
                                 Len(clusters[k]) >= min_cluster_size})
          /\ stats.families_created =
                 Cardinality({f \in 1..Len(req_families) :
                                 req_families[f].created_at = runs})

\* C9 witness: a run with min_cluster_size 2 has ended, one cluster of one
\* member was left out and one family was stored.
C9_Witness ==
    /\ apc = "done"
    /\ min_cluster_size = 2
    /\ \E k \in DOMAIN clusters : Len(clusters[k]) = 1
    /\ stats.families_created >= 1

\* C10: running build_families again over the same requirements leaves the
\* store with the families of one run: the family count does not grow and
\* each requirement still is a member of at most one stored family.
C10_RerunKeepsFamilies ==
    apc = "done" =>
        /\ Len(req_families) = stats.families_created
        /\ \A i \in Items : Cardinality(RowsOfReq(ReqId(i))) <= 1

-----------------------------------------------------------------------------
(* BM25Index.build and BM25Index.search *)

\* Bounds of the BM25 model: corpus size, the largest score (scores are
\* small integers standing for get_scores' floats), the largest top_k.
MaxCorpus == 3
MaxScore == 2
MaxSearchTopK == 4

BM25Init ==
    /\ index_built = FALSE
    /\ index_chunks = <<>>
    /\ scores = <<>>
    /\ search_top_k = 0
    /\ search_results = <<>>
    /\ bpc = "new"

BM25Idle ==
    /\ index_built = FALSE
    /\ index_chunks = <<>>
    /\ scores = <<>>
    /\ search_top_k = 0
    /\ search_results = <<>>
    /\ bpc = "idle"

\* build(chunks): self.chunks = chunks; self.index = BM25Okapi(...).
BM25Build ==
    /\ bpc = "new"
    /\ \E cs \in InjSeqs(1..MaxCorpus, MaxCorpus) \ {<<>>} :
           index_chunks' = cs
    /\ index_built' = TRUE
    /\ scores' = <<>>
    /\ search_top_k' = 0
    /\ search_results' = <<>>
    /\ bpc' = "ready"

\* search on an object whose index is None: RuntimeError("Index not built
\* yet").
BM25SearchNotBuilt ==
    /\ bpc = "new"
    /\ ~index_built
    /\ bpc' = "raised"
    /\ UNCHANGED <<index_built, index_chunks, scores, search_top_k,
                   search_results>>

\* range(len(scores)): the 0-based indices, ascending.
IndexRange(n) == [k \in 1..n |-> k - 1]

\* The same indices, descending.
IndexRangeReversed(n) == [k \in 1..n |-> n - k]

\* sorted(range(len(scores)), key=lambda i: scores[i], reverse=True)[:top_k]
\* for the array sc, given as a function of the 0-based index (a mutant:
\* the indices sorted from the last one, so that ties come out reversed).
TopIndicesTiesReversed(sc, n, k) ==
    LET sorted == SortedDescending(IndexRangeReversed(n), sc)
    IN SubSeq(sorted, 1, Min(k, n))

TopIndices(sc, n, k) ==
    LET sorted == SortedDescending(IndexRange(n), sc)
    IN SubSeq(sorted, 1, Min(k, n))

\* search(query, top_k) on a built index: get_scores gives one score per
\* chunk; the result pairs self.chunks[i] with scores[i] for the top
\* indices.
BM25Search ==
    /\ bpc = "ready"
    /\ index_built
    /\ LET n == Len(index_chunks)
       IN \E sc \in [0..(n - 1) -> 0..MaxScore], k \in 0..MaxSearchTopK :
              /\ scores' = sc
              /\ search_top_k' = k
              /\ LET top_indices == TopIndices(sc, n, k)
                 IN search_results' =
                        [p \in 1..Len(top_indices) |->
                            [chunk |-> index_chunks[top_indices[p] + 1],
                             score |-> sc[top_indices[p]]]]
    /\ bpc' = "returned"
    /\ UNCHANGED <<index_built, index_chunks>>

BM25Next ==
    \/ BM25Build /\ UNCHANGED exceptBM25
    \/ BM25SearchNotBuilt /\ UNCHANGED exceptBM25
    \/ BM25Search /\ UNCHANGED exceptBM25

-----------------------------------------------------------------------------
(* Claims about BM25Index.search (checked under SpecBM25) *)

\* A search has returned.
Searched == bpc = "returned"

\* The position of a chunk in the list given to build.
InsertionPos(c) == IndexOf(index_chunks, c)

\* C12: search returns at most top_k (chunk, score) pairs, each chunk with
\* its own score, in non-increasing score order, and chunks of equal score
\* in the order of the chunk list given to build.
C12_TopKStableByScore ==
    Searched =>
        /\ Len(search_results) <= search_top_k
        /\ \A p \in 1..Len(search_results) :
               /\ search_results[p].chunk \in Range(index_chunks)
               /\ search_results[p].score =
                      scores[InsertionPos(search_results[p].chunk) - 1]
        /\ \A p, q \in 1..Len(search_results) :
               p < q =>
                   \/ search_results[p].score > search_results[q].score
                   \/ /\ search_results[p].score = search_results[q].score
                      /\ InsertionPos(search_results[p].chunk)
                             < InsertionPos(search_results[q].chunk)

\* C12 witness: a search that cut the list at top_k and returned two chunks
\* of equal score, the chunk with the larger id first.
C12_Witness ==
    /\ Searched
    /\ Len(search_results) = search_top_k
    /\ Len(index_chunks) > search_top_k
    /\ \E p, q \in 1..Len(search_results) :
           /\ p < q
           /\ search_results[p].score = search_results[q].score
           /\ search_results[p].chunk > search_results[q].chunk

-----------------------------------------------------------------------------
(* ask (cli.py): is_comparative_question, detect_question_type and the     *)
(* dispatch of answer_pattern_question                                      *)

\* Bound of the routing model: the number of words of a question.
MaxWords == 2

\* None, for a variable that otherwise holds a string.
NoneValue == "<None>"

\* The words questions are made of: comparison keywords ("Compare",
\* "how many"), the words ask itself looks for ("risks", "requirements",
\* "success"), keywords only QUESTION_PATTERNS has ("problems", "must",
\* "potential problems") and a word that is no keyword.
Vocabulary ==
    {"Compare", "how", "many", "risks", "requirements", "problems",
     "success", "must", "potential", "the"}

\* " ".join(words)
RECURSIVE Join(_)
Join(words) ==
    IF words = <<>> THEN ""
    ELSE IF Len(words) = 1 THEN words[1]
    ELSE words[1] \o " " \o Join(Tail(words))

RECURSIVE WordSeqs(_)
WordSeqs(n) ==
    IF n = 0 THEN {<<>>}
    ELSE LET shorter == WordSeqs(n - 1)
         IN shorter \cup {Append(s, w) : s \in shorter, w \in Vocabulary}

Questions == {Join(ws) : ws \in WordSeqs(MaxWords)}

\* The values of --pattern-type: not given, the five documented types, and
\* a name of the patterns table, which is not a key of pattern_type_mapping.
PatternTypeOptions ==
    {NoneValue, "success", "failure", "risk", "constraint", "requirement",
     "success_point"}

\* str.lower(), character by character.
UpperCase == "ABCDEFGHIJKLMNOPQRSTUVWXYZ"
LowerCase == "abcdefghijklmnopqrstuvwxyz"
LowerChar(c) ==
    IF \E i \in 1..Len(UpperCase) : SubSeq(UpperCase, i, i) = c
    THEN LET i == CHOOSE i \in 1..Len(UpperCase) : SubSeq(UpperCase, i, i) = c
         IN SubSeq(LowerCase, i, i)
    ELSE c

RECURSIVE Lower(_)
Lower(s) ==
    IF Len(s) = 0 THEN ""
    ELSE IF Len(s) = 1 THEN LowerChar(s)
    ELSE LET half == Len(s) \div 2
         IN Lower(SubSeq(s, 1, half)) \o Lower(SubSeq(s, half + 1, Len(s)))

\* kw in text: kw is a substring of text.
In(kw, text) ==
    \E i \in 1..(Len(text) - Len(kw) + 1) :
        SubSeq(text, i, i + Len(kw) - 1) = kw

\* comparative_keywords of is_comparative_question.
comparative_keywords ==
    <<"compare", "comparison", "versus", "vs", "more than", "less than",
      "balance", "ratio", "distribution", "how many">>

is_comparative_question(q) ==
    LET question_lower == Lower(q)
    IN \E k \in 1..Len(comparative_keywords) :
           In(comparative_keywords[k], question_lower)

\* The keywords ask looks for before it calls answer_pattern_question.
AskKeywords == <<"success", "failure", "risk", "constraint", "requirement">>

\* QUESTION_PATTERNS: its keys in the order of the dict, and its values.
PatternTypes == <<"success", "failure", "risk", "constraint", "requirement">>

QUESTION_PATTERNS ==
    [success |-> <<"success", "achievement", "accomplishment", "completed",
                   "delivered", "proven", "strength", "advantage",
                   "positive">>,
     failure |-> <<"failure", "problem", "issue", "concern", "weakness",
                   "gap", "challenge", "difficulty">>,
     risk |-> <<"risk", "threat", "potential problem", "vulnerability",
                "exposure", "uncertain">>,
     constraint |-> <<"constraint", "limitation", "restriction", "boundary",
                      "dependency", "prerequisite">>,
     requirement |-> <<"requirement", "must", "shall", "should", "mandatory",
                       "needed">>]

\* score = sum(1 for kw in keywords if kw in question_lower)
KeywordScore(type, question_lower) ==
    LET keywords == QUESTION_PATTERNS[type]
    IN Cardinality({k \in 1..Len(keywords) : In(keywords[k], question_lower)})

\* The keys of the dict scores, in insertion order: the types of score > 0.
RECURSIVE ScoredTypes(_, _)
ScoredTypes(types, question_lower) ==
    IF types = <<>> THEN <<>>
    ELSE (IF KeywordScore(Head(types), question_lower) > 0
          THEN <<Head(types)>> ELSE <<>>)
         \o ScoredTypes(Tail(types), question_lower)

\* max(keys, key=score): the first key of the largest score (a mutant: the
\* last one).
LastMax(keys, score) ==
    keys[CHOOSE k \in 1..Len(keys) :
             /\ \A j \in 1..Len(keys) : score[keys[j]] <= score[keys[k]]
             /\ \A j \in (k + 1)..Len(keys) : score[keys[j]] < score[keys[k]]]

FirstMax(keys, score) ==
    keys[CHOOSE k \in 1..Len(keys) :
             /\ \A j \in 1..Len(keys) : score[keys[j]] <= score[keys[k]]
             /\ \A j \in 1..(k - 1) : score[keys[j]] < score[keys[k]]]

detect_question_type(q) ==
    LET question_lower == Lower(q)
        keys == ScoredTypes(PatternTypes, question_lower)
        score == [t \in Range(PatternTypes) |->
                     KeywordScore(t, question_lower)]
    IN IF keys = <<>> THEN NoneValue ELSE FirstMax(keys, score)

\* The keys of pattern_type_mapping.
pattern_type_mapping ==
    {"success", "failure", "risk", "constraint", "requirement"}

AskInit ==
    /\ question \in Questions
    /\ pattern_type \in PatternTypeOptions
    /\ detected = NoneValue
    /\ answered = <<>>
    /\ qpc = "ask"

AskIdle ==
    /\ question = ""
    /\ pattern_type = NoneValue
    /\ detected = NoneValue
    /\ answered = <<>>
    /\ qpc = "idle"

\* if is_comparative_question(question):
\*     response = answer_comparative_question(question, db, config)
RouteComparative ==
    /\ qpc = "ask"
    /\ is_comparative_question(question)
    /\ answered' = Append(answered, "comparative")
    /\ qpc' = "done"
    /\ UNCHANGED <<question, pattern_type, detected>>

\* elif pattern_type or any(kw in question.lower() for kw in [...]):
\*     response = answer_pattern_question(...)
HasAskKeyword(q) ==
    \E k \in 1..Len(AskKeywords) : In(AskKeywords[k], Lower(q))

\* (A mutant: the branch taken without regard to the first test.)
RoutePatternUnguarded ==
    /\ qpc = "ask"
    /\ pattern_type # NoneValue \/ HasAskKeyword(question)
    /\ qpc' = "answer_pattern_question"
    /\ UNCHANGED <<question, pattern_type, detected, answered>>

RoutePattern ==
    /\ qpc = "ask"
    /\ ~is_comparative_question(question)
    /\ pattern_type # NoneValue \/ HasAskKeyword(question)
    /\ qpc' = "answer_pattern_question"
    /\ UNCHANGED <<question, pattern_type, detected, answered>>

\* else: response = answer_question(question, db, config, top_k=top_k)
RouteGeneral ==
    /\ qpc = "ask"
    /\ ~is_comparative_question(question)
    /\ ~(pattern_type # NoneValue \/ HasAskKeyword(question))
    /\ qpc' = "answer_question"
    /\ UNCHANGED <<question, pattern_type, detected, answered>>

\* answer_pattern_question: if pattern_type is None:
\*     pattern_type = detect_question_type(question)
DetectType ==
    /\ qpc = "answer_pattern_question"
    /\ detected' = IF pattern_type = NoneValue
                   THEN detect_question_type(question)
                   ELSE pattern_type
    /\ qpc' = "dispatch"
    /\ UNCHANGED <<question, pattern_type, answered>>

\* if pattern_type and pattern_type in pattern_type_mapping: the patterns of
\* the type are read and a response about them is returned.
AnswerPattern ==
    /\ qpc = "dispatch"
    /\ detected # NoneValue /\ detected \in pattern_type_mapping
    /\ answered' = Append(answered, "pattern")
    /\ qpc' = "done"
    /\ UNCHANGED <<question, pattern_type, detected>>

\* else: return answer_question(question, db, config, top_k)
PatternFallsBack ==
    /\ qpc = "dispatch"
    /\ ~(detected # NoneValue /\ detected \in pattern_type_mapping)
    /\ qpc' = "answer_question"
    /\ UNCHANGED <<question, pattern_type, detected, answered>>

\* answer_question builds the response of the general path.
AnswerGeneral ==
    /\ qpc = "answer_question"
    /\ answered' = Append(answered, "general")
    /\ qpc' = "done"
    /\ UNCHANGED <<question, pattern_type, detected>>

AskNext ==
    \/ RouteComparative /\ UNCHANGED exceptAsk
    \/ RoutePattern /\ UNCHANGED exceptAsk
    \/ RouteGeneral /\ UNCHANGED exceptAsk
    \/ DetectType /\ UNCHANGED exceptAsk
    \/ AnswerPattern /\ UNCHANGED exceptAsk
    \/ PatternFallsBack /\ UNCHANGED exceptAsk
    \/ AnswerGeneral /\ UNCHANGED exceptAsk

-----------------------------------------------------------------------------
(* Claims about the routing of questions (checked under SpecAsk) *)

\* The word sequences the question is made of.
WordsOf(q) == {ws \in WordSeqs(MaxWords) : Join(ws) = q}

\* The question has a comparison keyword: of the words of the model,
\* "Compare" in any case, or "how" followed by "many".
HasComparisonKeyword ==
    \E ws \in WordsOf(question) :
        \/ "Compare" \in Range(ws)
        \/ \E k \in 1..(Len(ws) - 1) : ws[k] = "how" /\ ws[k + 1] = "many"

\* C13: a question that contains a comparison keyword is answered on the
\* comparative path whatever the --pattern-type option and whatever pattern
\* keyword it contains, and every question is answered by exactly one of
\* the comparative, pattern and general paths.
C13_ComparativeFirstOnePath ==
    qpc = "done" =>
        /\ Len(answered) = 1
        /\ answered[1] \in {"comparative", "pattern", "general"}
        /\ HasComparisonKeyword => answered = <<"comparative">>

\* C13 witness: a comparative question with a pattern keyword and a
\* --pattern-type option, answered.
C13_Witness ==
    /\ qpc = "done"
    /\ HasComparisonKeyword
    /\ "risks" \in UNION {Range(ws) : ws \in WordsOf(question)}
    /\ pattern_type = "risk"
    /\ answered = <<"comparative">>

\* detect_question_type has just run (no --pattern-type was given).
DetectRan == qpc = "dispatch" /\ pattern_type = NoneValue

\* The types that share the highest keyword score of the question.
TopScorers ==
    LET q == Lower(question)
    IN {t \in Range(PatternTypes) :
            /\ KeywordScore(t, q) > 0
            /\ \A u \in Range(PatternTypes) :
                   KeywordScore(u, q) <= KeywordScore(t, q)}

\* The first type of the ordering that is in the set S.
FirstOf(ordering, S) ==
    ordering[CHOOSE k \in 1..Len(ordering) :
                 /\ ordering[k] \in S
                 /\ \A j \in 1..(k - 1) : ordering[j] \notin S]

\* C14 as stated: when several pattern types share the highest keyword
\* score, detect_question_type returns the one that comes first in the
\* priority ordering requirement > risk > constraint > success > failure.
C14_TieByStatedPriority ==
    (DetectRan /\ Cardinality(TopScorers) >= 2) =>
        detected = FirstOf(<<"requirement", "risk", "constraint", "success",
                             "failure">>, TopScorers)

\* C14 amended: when several pattern types share the highest keyword score,
\* detect_question_type returns the one that comes first in the order of
\* the QUESTION_PATTERNS dict: success, failure, risk, constraint,
\* requirement.
C14_TieByDeclarationOrder ==
    (DetectRan /\ Cardinality(TopScorers) >= 2) =>
        detected = FirstOf(<<"success", "failure", "risk", "constraint",
                             "requirement">>, TopScorers)

\* C14 witness: risk and requirement share the highest score and risk is
\* returned.
C14_Witness ==
    /\ DetectRan
    /\ TopScorers = {"risk", "requirement"}
    /\ detected = "risk"


\* Some pattern type has a keyword score > 0 for the question.
SomeTypeScores ==
    \E t \in Range(PatternTypes) : KeywordScore(t, Lower(question)) > 0

\* C15: a question without a comparison keyword is answered on the pattern
\* path whenever a --pattern-type option is given or some pattern type has
\* a keyword score > 0, and on the general path only when there is no
\* option and every type scores 0.
C15_PatternPathIffHintOrScore ==
    (qpc = "done" /\ ~HasComparisonKeyword) =>
        IF pattern_type # NoneValue \/ SomeTypeScores
        THEN answered = <<"pattern">>
        ELSE answered = <<"general">>

-----------------------------------------------------------------------------
(* answer_question *)

\* Bounds of the answer model: the number of retrieved chunks (top_k is 20
\* by default) and the number of chunk ids the model's answer cites.
MaxRetrieved == 12
MaxCited == 2

\* evidence[:10], the cut of the fallback response.
FallbackEvidenceLimit == 10

NoResponse == [answer |-> "", evidence |-> <<>>]

AnswerInit ==
    /\ retrieved = <<>>
    /\ evidence = <<>>
    /\ response = NoResponse
    /\ npc = "retrieve"

AnswerIdle ==
    /\ retrieved = <<>>
    /\ evidence = <<>>
    /\ response = NoResponse
    /\ npc = "idle"

\* results = retriever.retrieve(question, top_k=top_k): n chunks, the chunk
\* at rank k having id 100 + k.
Retrieve ==
    /\ npc = "retrieve"
    /\ \E n \in 0..MaxRetrieved : retrieved' = [k \in 1..n |-> 100 + k]
    /\ npc' = "retrieved"
    /\ UNCHANGED <<evidence, response>>

\* if not results: the "couldn't find" response, without evidence.
NoResults ==
    /\ npc = "retrieved"
    /\ retrieved = <<>>
    /\ response' = [answer |-> "not_found", evidence |-> <<>>]
    /\ npc' = "done"
    /\ UNCHANGED <<retrieved, evidence>>

\* The loop over results: one evidence dict per chunk, in order.
BuildEvidence ==
    /\ npc = "retrieved"
    /\ retrieved # <<>>
    /\ evidence' = [k \in 1..Len(retrieved) |->
                       [chunk_id |-> retrieved[k], rank |-> k]]
    /\ npc' = "generate"
    /\ UNCHANGED <<retrieved, response>>

\* [ev for ev in evidence if the chunk id of ev is cited]
RECURSIVE CitedOnly(_, _)
CitedOnly(ev, cited_ids) ==
    IF ev = <<>> THEN <<>>
    ELSE (IF Head(ev).chunk_id \in cited_ids THEN <<Head(ev)>> ELSE <<>>)
         \o CitedOnly(Tail(ev), cited_ids)

\* generate_json returned a dict: the evidence is cut down to the cited
\* chunks, or kept whole when nothing is cited.
GenerateReturns ==
    /\ npc = "generate"
    /\ \E cited_ids \in {c \in SUBSET (Range(retrieved) \cup {100}) :
                            Cardinality(c) <= MaxCited} :
           response' = [answer |-> "generated",
                        evidence |-> IF cited_ids # {}
                                     THEN CitedOnly(evidence, cited_ids)
                                     ELSE evidence]
    /\ npc' = "done"
    /\ UNCHANGED <<retrieved, evidence>>

\* evidence[:10] (a mutant: evidence[-10:]).
FallbackEvidenceLast(ev) ==
    SubSeq(ev, Len(ev) - Min(FallbackEvidenceLimit, Len(ev)) + 1, Len(ev))

FallbackEvidence(ev) == SubSeq(ev, 1, Min(FallbackEvidenceLimit, Len(ev)))

\* except Exception: generate_json raised (the generation failed, the JSON
\* retries were exhausted) or its value was no dict; the fallback response.
GenerateRaises ==
    /\ npc = "generate"
    /\ response' = [answer |-> "found_but_error",
                    evidence |-> FallbackEvidence(evidence)]
    /\ npc' = "done"
    /\ UNCHANGED <<retrieved, evidence>>

AnswerNext ==
    \/ Retrieve /\ UNCHANGED exceptAnswer
    \/ NoResults /\ UNCHANGED exceptAnswer
    \/ BuildEvidence /\ UNCHANGED exceptAnswer
    \/ GenerateReturns /\ UNCHANGED exceptAnswer
    \/ GenerateRaises /\ UNCHANGED exceptAnswer

-----------------------------------------------------------------------------
(* Claims about answer_question (checked under SpecAnswer) *)

\* The generation call failed and answer_question has returned.
FellBack == npc = "done" /\ response.answer = "found_but_error"

\* C16 as stated: when the generation call fails, answer_question returns a
\* response with an explanatory answer whose evidence is the raw retrieved
\* evidence list, one entry for every retrieved chunk.
C16_FallbackReturnsAllEvidence ==
    FellBack =>
        /\ Len(response.evidence) = Len(retrieved)
        /\ \A k \in 1..Len(retrieved) :
               response.evidence[k].chunk_id = retrieved[k]

\* C16 amended: when the generation call fails, answer_question returns a
\* response with an explanatory answer whose evidence is the raw evidence
\* of the first 10 retrieved chunks, in retrieval order (of all of them
\* when at most 10 were retrieved).
C16_FallbackReturnsFirstTen ==
    FellBack =>
        /\ Len(response.evidence) = Min(10, Len(retrieved))
        /\ \A k \in 1..Len(response.evidence) :
               response.evidence[k] = [chunk_id |-> retrieved[k], rank |-> k]

\* C16 witness: a failed generation after more than 10 chunks were
\* retrieved, answered with 10 evidence entries.
C16_Witness ==
    /\ FellBack
    /\ Len(retrieved) > 10
    /\ Len(response.evidence) = 10

-----------------------------------------------------------------------------
(* answer_comparative_question *)

\* Bound of the comparison model: the largest count of one pattern type.
MaxCount == 2

\* The keys of pattern_counts, in the order of the dict.
CountNames ==
    <<"Requirements", "Success Points", "Failure Points", "Risks",
      "Constraints">>

\* The order of characters by code point, for the characters of the names.
CodePoints == " " \o UpperCase \o LowerCase
CodePoint(c) == CHOOSE i \in 1..Len(CodePoints) : SubSeq(CodePoints, i, i) = c

\* a < b for strings: the first differing character decides, a proper
\* prefix is smaller.
RECURSIVE StrLess(_, _)
StrLess(a, b) ==
    IF Len(b) = 0 THEN FALSE
    ELSE IF Len(a) = 0 THEN TRUE
    ELSE LET ca == CodePoint(SubSeq(a, 1, 1))
             cb == CodePoint(SubSeq(b, 1, 1))
         IN IF ca # cb THEN ca < cb
            ELSE StrLess(SubSeq(a, 2, Len(a)), SubSeq(b, 2, Len(b)))

\* (k1, v1) < (k2, v2) for tuples of a string and a number.
TupleLess(t1, t2) ==
    \/ StrLess(t1[1], t2[1])
    \/ t1[1] = t2[1] /\ t1[2] < t2[2]

\* min((k, v) for k, v in pattern_counts.items() if v > 0): the smallest
\* tuple.
MinTuple(counts) ==
    LET items == {<<k, counts[k]>> : k \in {n \in Range(CountNames) :
                                               counts[n] > 0}}
    IN CHOOSE t \in items : \A u \in items \ {t} : TupleLess(t, u)

\* The divisor of the success/failure ratio (a mutant: without the + 1).
RatioDivisorPlain(failure_count) == failure_count
RatioDivisor(failure_count) == failure_count + 1

\* sum(pattern_counts.values())
Total(counts) == SumSeq([k \in 1..Len(CountNames) |-> counts[CountNames[k]]])

NoComparison ==
    [kind |-> "", evidence |-> <<>>, max_type |-> NoneValue,
     min_type |-> <<>>, ratio |-> <<>>]

CompareInit ==
    /\ pattern_counts = <<>>
    /\ comparison = NoComparison
    /\ divisions = <<>>
    /\ cpc = "count"

CompareIdle ==
    /\ pattern_counts = <<>>
    /\ comparison = NoComparison
    /\ divisions = <<>>
    /\ cpc = "idle"

\* pattern_counts = {...}: the counts read from the database.
CountPatterns ==
    /\ cpc = "count"
    /\ pattern_counts' \in [Range(CountNames) -> 0..MaxCount]
    /\ cpc' = "counted"
    /\ UNCHANGED <<comparison, divisions>>

\* if total == 0: the "No patterns have been extracted yet" response.
NothingExtracted ==
    /\ cpc = "counted"
    /\ Total(pattern_counts) = 0
    /\ comparison' = [NoComparison EXCEPT !.kind = "no_patterns"]
    /\ cpc' = "done"
    /\ UNCHANGED <<pattern_counts, divisions>>

\* The distribution: one evidence entry per type by count descending, with
\* percentage count / total * 100 (kept as a fraction); the most and the
\* least common type; the ratio, kept as <<dividend, divisor>>, when there
\* is a success or a failure.
Distribution ==
    /\ cpc = "counted"
    /\ Total(pattern_counts) # 0
    /\ LET total == Total(pattern_counts)
           order == SortedDescending(CountNames, pattern_counts)
           success_count == pattern_counts["Success Points"]
           failure_count == pattern_counts["Failure Points"]
           with_ratio == success_count > 0 \/ failure_count > 0
       IN /\ comparison' =
                 [kind |-> "distribution",
                  evidence |->
                      [k \in 1..Len(order) |->
                          [pattern_type |-> order[k],
                           count |-> pattern_counts[order[k]],
                           percentage |->
                               [num |-> pattern_counts[order[k]] * 100,
                                den |-> total]]],
                  max_type |-> FirstMax(CountNames, pattern_counts),
                  min_type |-> MinTuple(pattern_counts),
                  ratio |-> IF with_ratio
                            THEN <<success_count,
                                   RatioDivisor(failure_count)>>
                            ELSE <<>>]
          /\ divisions' =
                 [k \in 1..Len(order) |-> total]
                 \o (IF with_ratio THEN <<RatioDivisor(failure_count)>>
                     ELSE <<>>)
    /\ cpc' = "done"
    /\ UNCHANGED pattern_counts

CompareNext ==
    \/ CountPatterns /\ UNCHANGED exceptCompare
    \/ NothingExtracted /\ UNCHANGED exceptCompare
    \/ Distribution /\ UNCHANGED exceptCompare

-----------------------------------------------------------------------------
(* Claims about answer_comparative_question (checked under SpecCompare) *)

NonZeroCounts == {pattern_counts[n] : n \in {m \in Range(CountNames) :
                                                pattern_counts[m] > 0}}

\* C17: for every combination of counts with a non-zero total, the type
\* reported as most common has the largest count and the type reported as
\* least common has the smallest count among the types of non-zero count.
C17_MostAndLeastCommon ==
    (cpc = "done" /\ comparison.kind = "distribution") =>
        /\ \A n \in Range(CountNames) :
               pattern_counts[n] <= pattern_counts[comparison.max_type]
        /\ comparison.min_type[2] = pattern_counts[comparison.min_type[1]]
        /\ \A c \in NonZeroCounts : comparison.min_type[2] <= c

\* C18: when all counts are zero the response is the explicit "no patterns
\* extracted" one, with empty evidence, and nothing was divided; when the
\* total is non-zero the reported success/failure ratio is
\* success / (failure + 1), it is reported when there is a success or a
\* failure, and no division had a zero divisor.
C18_ZeroTotalAndRatio ==
    cpc = "done" =>
        LET success == pattern_counts["Success Points"]
            failure == pattern_counts["Failure Points"]
        IN IF \A n \in Range(CountNames) : pattern_counts[n] = 0
           THEN /\ comparison.kind = "no_patterns"
                /\ comparison.evidence = <<>>
                /\ comparison.ratio = <<>>
                /\ divisions = <<>>
           ELSE /\ comparison.kind = "distribution"
                /\ \A k \in 1..Len(divisions) : divisions[k] # 0
                /\ IF success > 0 \/ failure > 0
                   THEN /\ Len(comparison.ratio) = 2
                        /\ comparison.ratio[2] # 0
                        /\ comparison.ratio[1] * (failure + 1)
                               = success * comparison.ratio[2]
                   ELSE comparison.ratio = <<>>

\* C18 witness, the zero case: every count is zero and the call returned.
C18_Witness ==
    /\ cpc = "done"
    /\ \A n \in Range(CountNames) : pattern_counts[n] = 0
    /\ comparison.kind = "no_patterns"

-----------------------------------------------------------------------------
(* OllamaClient.generate_json *)

\* Bound of the generation model: the largest max_retries (3 by default).
MaxMaxRetries == 3

\* What a call of generate can do: return a text, or raise RuntimeError
\* ("Ollama generation failed") on a requests.RequestException.
GenerateError == [raised |-> "Ollama generation failed"]
Texts == {"{\"answer\": \"a\"}", "[]", "{\"answer\": ", "Sure, here it is"}
GenerateOutcomes == {[text |-> t] : t \in Texts} \cup {GenerateError}

\* json.loads on the texts of the model: the parsed value (a dict by its
\* items, a list by its elements), or JSONDecodeError.
JSONDecodeError == [raised |-> "JSONDecodeError"]
json_loads(text) ==
    CASE text = "{\"answer\": \"a\"}" ->
             [value |-> [dict |-> <<<<"answer", "a">>>>]]
      [] text = "[]" -> [value |-> [list |-> <<>>]]
      [] OTHER -> JSONDecodeError

IsText(o) == "text" \in DOMAIN o
Malformed(o) == IsText(o) /\ json_loads(o.text) = JSONDecodeError
WellFormed(o) == IsText(o) /\ json_loads(o.text) # JSONDecodeError

NoOutcome == [pending |-> TRUE]

GenInit ==
    /\ max_retries \in 0..MaxMaxRetries
    /\ attempt = 0
    /\ calls = <<>>
    /\ outcome = NoOutcome
    /\ gpc = "loop"

GenIdle ==
    /\ max_retries = 0
    /\ attempt = 0
    /\ calls = <<>>
    /\ outcome = NoOutcome
    /\ gpc = "idle"

LastCall == calls[Len(calls)]

\* for attempt in range(max_retries): response = self.generate(...)
CallGenerate ==
    /\ gpc = "loop"
    /\ attempt < max_retries
    /\ \E o \in GenerateOutcomes : calls' = Append(calls, o)
    /\ gpc' = "called"
    /\ UNCHANGED <<max_retries, attempt, outcome>>

\* return json.loads(response)
ReturnParsed ==
    /\ gpc = "called"
    /\ WellFormed(LastCall)
    /\ outcome' = [returned |-> json_loads(LastCall.text).value]
    /\ gpc' = "done"
    /\ UNCHANGED <<max_retries, attempt, calls>>

\* except json.JSONDecodeError, not on the last attempt: the loop goes on
\* (a mutant: with the same attempt number).
ParseErrorRetrySameAttempt ==
    /\ gpc = "called"
    /\ Malformed(LastCall)
    /\ attempt # max_retries - 1
    /\ gpc' = "loop"
    /\ UNCHANGED <<max_retries, attempt, calls, outcome>>

ParseErrorRetry ==
    /\ gpc = "called"
    /\ Malformed(LastCall)
    /\ attempt # max_retries - 1
    /\ attempt' = attempt + 1
    /\ gpc' = "loop"
    /\ UNCHANGED <<max_retries, calls, outcome>>

\* except json.JSONDecodeError on the last attempt:
\* raise RuntimeError("Failed to get valid JSON after ... attempts")
ParseErrorFinal ==
    /\ gpc = "called"
    /\ Malformed(LastCall)
    /\ attempt = max_retries - 1
    /\ outcome' = [raised |-> "Failed to get valid JSON"]
    /\ gpc' = "done"
    /\ UNCHANGED <<max_retries, attempt, calls>>

\* except Exception, not on the last attempt: the error is logged and the
\* loop goes on (a mutant: the error is raised again at once).
GenerateErrorPropagates ==
    /\ gpc = "called"
    /\ LastCall = GenerateError
    /\ attempt # max_retries - 1
    /\ outcome' = LastCall
    /\ gpc' = "done"
    /\ UNCHANGED <<max_retries, attempt, calls>>

GenerateErrorRetry ==
    /\ gpc = "called"
    /\ LastCall = GenerateError
    /\ attempt # max_retries - 1
    /\ attempt' = attempt + 1
    /\ gpc' = "loop"
    /\ UNCHANGED <<max_retries, calls, outcome>>

\* except Exception on the last attempt: raise (the error of generate).
GenerateErrorFinal ==
    /\ gpc = "called"
    /\ LastCall = GenerateError
    /\ attempt = max_retries - 1
    /\ outcome' = LastCall
    /\ gpc' = "done"
    /\ UNCHANGED <<max_retries, attempt, calls>>

\* The loop ended without a return or a raise (max_retries <= 0):
\* raise RuntimeError("Failed to generate JSON response")
LoopExhausted ==
    /\ gpc = "loop"
    /\ attempt >= max_retries
    /\ outcome' = [raised |-> "Failed to generate JSON response"]
    /\ gpc' = "done"
    /\ UNCHANGED <<max_retries, attempt, calls>>

GenNext ==
    \/ CallGenerate /\ UNCHANGED exceptGen
    \/ ReturnParsed /\ UNCHANGED exceptGen
    \/ ParseErrorRetry /\ UNCHANGED exceptGen
    \/ ParseErrorFinal /\ UNCHANGED exceptGen
    \/ GenerateErrorRetry /\ UNCHANGED exceptGen
    \/ GenerateErrorFinal /\ UNCHANGED exceptGen
    \/ LoopExhausted /\ UNCHANGED exceptGen

-----------------------------------------------------------------------------
(* Claims about OllamaClient.generate_json (checked under SpecGen) *)

\* The calls of generate that failed with a connectivity/upstream error.
FailedCalls == {k \in 1..Len(calls) : calls[k] = GenerateError}

\* C19 as stated: only malformed output is retried; when generate fails
\* with a connectivity/upstream error, generate_json propagates the failure
\* and makes no further generate call.
C19_GenerateErrorNotRetried ==
    /\ \A k \in FailedCalls : k = Len(calls)
    /\ (gpc = "done" /\ FailedCalls # {}) => outcome = GenerateError

\* C19 amended: a failure of generate is retried like malformed output:
\* when it happens before the last of the max_retries attempts,
\* generate_json calls generate again; the failure propagates only when it
\* happens on the last attempt, and then no further call is made.
C19_GenerateErrorRetriedUntilLast ==
    /\ \A k \in FailedCalls :
           (k < max_retries /\ (gpc = "done" \/ k < Len(calls)))
               => Len(calls) > k
    /\ \A k \in FailedCalls : k = max_retries => k = Len(calls)
    /\ gpc = "done" =>
           (outcome = GenerateError
               <=> (Len(calls) = max_retries /\ max_retries \in FailedCalls))

\* C19 witness: the first generate call failed, the second returned
\* well-formed output, and generate_json returned its value.
C19_Witness ==
    /\ gpc = "done"
    /\ Len(calls) = 2
    /\ calls[1] = GenerateError
    /\ WellFormed(calls[2])
    /\ "returned" \in DOMAIN outcome

\* The values json.loads gives for the well-formed texts.
ParsedValues ==
    {json_loads(t).value : t \in {u \in Texts : WellFormed([text |-> u])}}

\* C20: generate_json calls generate at most max_retries times; a returned
\* value is the parsed value of the first well-formed output, which is the
\* last call made; when all max_retries outputs are malformed it ends in an
\* error; what it returns is always a parsed value, never a text.
C20_BoundedRetries ==
    /\ Len(calls) <= max_retries
    /\ \A k \in 1..(Len(calls) - 1) : ~WellFormed(calls[k])
    /\ gpc = "done" =>
           /\ "returned" \in DOMAIN outcome \/ "raised" \in DOMAIN outcome
           /\ "returned" \in DOMAIN outcome =>
                  /\ calls # <<>>
                  /\ WellFormed(LastCall)
                  /\ outcome.returned = json_loads(LastCall.text).value
                  /\ outcome.returned \in ParsedValues
           /\ (calls # <<>> /\ WellFormed(LastCall)) =>
                  "returned" \in DOMAIN outcome
           /\ (Len(calls) = max_retries
               /\ \A k \in 1..Len(calls) : Malformed(calls[k])) =>
                  "raised" \in DOMAIN outcome

\* C20 witness: max_retries = 3 outputs, all malformed, and the error.
C20_Witness ==
    /\ gpc = "done"
    /\ max_retries = 3
    /\ Len(calls) = 3
    /\ \A k \in 1..3 : Malformed(calls[k])
    /\ "raised" \in DOMAIN outcome

-----------------------------------------------------------------------------
(* The extract and list-patterns commands, and extract_patterns *)

\* Bounds of the extraction model: the chunks of the store; confidences and
\* thresholds are tenths.
MaxExtractChunks == 3
MaxConfidence == 2

\* The keys of PATTERN_CONFIGS, in the order of the dict.
PATTERN_CONFIGS == <<"success_point", "failure_point", "risk", "constraint">>

\* valid_patterns of the extract command.
valid_patterns ==
    <<"requirements", "success_points", "failure_points", "risks",
      "constraints", "all">>

\* pattern_types of the branch "all" of the extract command.
all_pattern_types == <<"success_points", "failure_points", "risks", "constraints">>

\* valid_types of the list-patterns command.
valid_types == <<"success_points", "failure_points", "risks", "constraints">>

\* What a caller may pass as a pattern name: the names of the commands, the
\* keys of PATTERN_CONFIGS, and a name nobody knows.
PatternNames ==
    Range(valid_patterns) \cup Range(PATTERN_CONFIGS) \cup {"opportunity"}

NoStats == [extracted |-> 0, chunks_processed |-> 0]
NoListing == [queried |-> NoneValue, rows |-> <<>>]

ExtractInit ==
    /\ cli_pattern = NoneValue
    /\ all_step = 0
    /\ ext_type = NoneValue
    /\ db_chunks \in 0..MaxExtractChunks
    /\ chunk_i = 0
    /\ fates = <<>>
    /\ ext_stats = NoStats
    /\ patterns_table = <<>>
    /\ store_touched = FALSE
    /\ ext_outcome = NoneValue
    /\ listed = NoListing
    /\ epc = "shell"

ExtractIdle ==
    /\ cli_pattern = NoneValue
    /\ all_step = 0
    /\ ext_type = NoneValue
    /\ db_chunks = 0
    /\ chunk_i = 0
    /\ fates = <<>>
    /\ ext_stats = NoStats
    /\ patterns_table = <<>>
    /\ store_touched = FALSE
    /\ ext_outcome = NoneValue
    /\ listed = NoListing
    /\ epc = "idle"

callVars == <<ext_type, chunk_i, fates, ext_stats, store_touched>>

\* The arguments and locals of a fresh call of extract_patterns.
EnterExtractPatterns(ptype) ==
    /\ ext_type' = ptype
    /\ chunk_i' = 0
    /\ fates' = <<>>
    /\ ext_stats' = NoStats
    /\ store_touched' = FALSE
    /\ epc' = "extract_patterns"

\* extract: if pattern not in valid_patterns: "Unknown pattern", Exit(1).
CommandRejected ==
    /\ epc = "shell"
    /\ \E pattern \in PatternNames \ Range(valid_patterns) :
           cli_pattern' = pattern
    /\ ext_outcome' = "Exit(1)"
    /\ epc' = "ended"
    /\ UNCHANGED <<all_step, callVars, db_chunks, patterns_table, listed>>

\* extract requirements: extract_requirements(db, config), which fills the
\* legacy requirements table.
CommandRequirements ==
    /\ epc = "shell"
    /\ cli_pattern' = "requirements"
    /\ ext_outcome' = "requirements_extracted"
    /\ epc' = "ended"
    /\ UNCHANGED <<all_step, callVars, db_chunks, patterns_table, listed>>

\* extract <pattern>, the branch of the new pattern types:
\* stats = extract_patterns(db, config, pattern, confidence)
CommandPattern ==
    /\ epc = "shell"
    /\ \E pattern \in Range(valid_patterns) \ {"requirements", "all"} :
           /\ cli_pattern' = pattern
           /\ EnterExtractPatterns(pattern)
    /\ ext_outcome' = NoneValue
    /\ UNCHANGED <<all_step, db_chunks, patterns_table, listed>>

\* extract all: extract_requirements, then extract_patterns for the first
\* of pattern_types.
CommandAll ==
    /\ epc = "shell"
    /\ cli_pattern' = "all"
    /\ all_step' = 1
    /\ EnterExtractPatterns(all_pattern_types[1])
    /\ ext_outcome' = NoneValue
    /\ UNCHANGED <<db_chunks, patterns_table, listed>>

\* extract_all_pattern_types (or any caller of the function):
\* stats = extract_patterns(db, config, pattern_type)
DirectCall ==
    /\ epc = "shell"
    /\ cli_pattern' = NoneValue
    /\ \E ptype \in PatternNames : EnterExtractPatterns(ptype)
    /\ ext_outcome' = NoneValue
    /\ UNCHANGED <<all_step, db_chunks, patterns_table, listed>>

\* if pattern_type not in PATTERN_CONFIGS: raise ValueError("Unknown pattern
\* type"). The commands do not catch it.
RaiseUnknownType ==
    /\ epc = "extract_patterns"
    /\ ext_type \notin Range(PATTERN_CONFIGS)
    /\ ext_outcome' = "ValueError: Unknown pattern type"
    /\ epc' = "ended"
    /\ UNCHANGED <<cli_pattern, all_step, callVars, db_chunks,
                   patterns_table, listed>>

\* chunks = db.get_all_chunks(); if not chunks: the early return.
LoadNoChunks ==
    /\ epc = "extract_patterns"
    /\ ext_type \in Range(PATTERN_CONFIGS)
    /\ db_chunks = 0
    /\ store_touched' = TRUE
    /\ ext_stats' = [extracted |-> 0, chunks_processed |-> 0]
    /\ epc' = "returned"
    /\ UNCHANGED <<cli_pattern, all_step, ext_type, chunk_i, fates,
                   db_chunks, patterns_table, ext_outcome, listed>>

\* chunks loaded, check_health() fails: raise RuntimeError.
OllamaDown ==
    /\ epc = "extract_patterns"
    /\ ext_type \in Range(PATTERN_CONFIGS)
    /\ db_chunks > 0
    /\ store_touched' = TRUE
    /\ ext_outcome' = "RuntimeError: Ollama is not running"
    /\ epc' = "ended"
    /\ UNCHANGED <<cli_pattern, all_step, ext_type, chunk_i, fates,
                   ext_stats, db_chunks, patterns_table, listed>>

\* chunks loaded, Ollama healthy:
\* stats = {"extracted": 0, "chunks_processed": 0, "skipped": 0}
StartLoop ==
    /\ epc = "extract_patterns"
    /\ ext_type \in Range(PATTERN_CONFIGS)
    /\ db_chunks > 0
    /\ store_touched' = TRUE
    /\ ext_stats' = [extracted |-> 0, chunks_processed |-> 0, skipped |-> 0]
    /\ chunk_i' = 1
    /\ epc' = "loop"
    /\ UNCHANGED <<cli_pattern, all_step, ext_type, fates, db_chunks,
                   patterns_table, ext_outcome, listed>>

\* One iteration that ends in "continue" or falls out of the except
\* clause, for a chunk that is not stored: stats["chunks_processed"] += 1
\* and, for the keyword pre-filter only, stats["skipped"] += 1.
Iterate(fate, skipped_more) ==
    /\ epc = "loop"
    /\ chunk_i <= db_chunks
    /\ fates' = Append(fates, fate)
    /\ ext_stats' = [ext_stats EXCEPT
                        !.chunks_processed = @ + 1,
                        !.skipped = @ + skipped_more]
    /\ chunk_i' = chunk_i + 1
    /\ UNCHANGED <<cli_pattern, all_step, ext_type, db_chunks,
                   patterns_table, store_touched, ext_outcome, listed, epc>>

\* if not _contains_keywords(...): stats["skipped"] += 1; continue
SkipNoKeywords == Iterate("no_keywords", 1)

\* is_pattern is false, or there is no pattern text: continue
DropNotPattern == Iterate("not_a_pattern", 0)

\* if confidence < threshold: continue
DropLowConfidence ==
    \E confidence \in 0..MaxConfidence, min_confidence \in 1..MaxConfidence :
        /\ confidence < min_confidence
        /\ Iterate("low_confidence", 0)

\* except Exception (generate_json raised, the answer was no dict ...):
\* the error is logged; continue
DropOnException == Iterate("exception", 0)

\* The pattern is inserted: db.insert_pattern(pattern);
\* stats["extracted"] += 1
StorePattern ==
    /\ epc = "loop"
    /\ chunk_i <= db_chunks
    /\ \E confidence \in 0..MaxConfidence, min_confidence \in 1..MaxConfidence :
           ~(confidence < min_confidence)
    /\ fates' = Append(fates, "extracted")
    /\ patterns_table' = Append(patterns_table,
                                [chunk_id |-> chunk_i,
                                 pattern_type |-> ext_type])
    /\ ext_stats' = [ext_stats EXCEPT
                        !.chunks_processed = @ + 1,
                        !.extracted = @ + 1]
    /\ chunk_i' = chunk_i + 1
    /\ UNCHANGED <<cli_pattern, all_step, ext_type, db_chunks,
                   store_touched, ext_outcome, listed, epc>>

\* The loop is over: return stats.
ReturnStats ==
    /\ epc = "loop"
    /\ chunk_i > db_chunks
    /\ epc' = "returned"
    /\ UNCHANGED <<cli_pattern, all_step, callVars, db_chunks,
                   patterns_table, ext_outcome, listed>>

\* Back in the caller: the loop of extract all goes on with the next of
\* pattern_types; after the last one, and in the other callers, the
\* statistics are printed and the command ends.
CallerEnds ==
    /\ epc = "returned"
    /\ IF cli_pattern = "all" /\ all_step < Len(all_pattern_types)
       THEN /\ all_step' = all_step + 1
            /\ EnterExtractPatterns(all_pattern_types[all_step + 1])
            /\ UNCHANGED ext_outcome
       ELSE /\ ext_outcome' = "ok"
            /\ epc' = "ended"
            /\ UNCHANGED <<all_step, callVars>>
    /\ UNCHANGED <<cli_pattern, db_chunks, patterns_table, listed>>

\* SELECT * FROM patterns WHERE pattern_type = ? ORDER BY id
RECURSIVE RowsOfType(_, _)
RowsOfType(table, ptype) ==
    IF table = <<>> THEN <<>>
    ELSE (IF Head(table).pattern_type = ptype THEN <<Head(table)>> ELSE <<>>)
         \o RowsOfType(Tail(table), ptype)

get_patterns_by_type(ptype) == RowsOfType(patterns_table, ptype)

\* list-patterns <pattern_type> after an extraction: rejected when the type
\* is not in valid_types, else db.get_patterns_by_type(pattern_type).
ListPatterns ==
    /\ epc = "ended"
    /\ listed = NoListing
    /\ \E ptype \in PatternNames :
           listed' = IF ptype \in Range(valid_types)
                     THEN [queried |-> ptype,
                           rows |-> get_patterns_by_type(ptype)]
                     ELSE [queried |-> ptype, rows |-> <<>>,
                           rejected |-> TRUE]
    /\ UNCHANGED <<cli_pattern, all_step, callVars, db_chunks,
                   patterns_table, ext_outcome, epc>>

ExtractNext ==
    \/ CommandRejected /\ UNCHANGED exceptExtract
    \/ CommandRequirements /\ UNCHANGED exceptExtract
    \/ CommandPattern /\ UNCHANGED exceptExtract
    \/ CommandAll /\ UNCHANGED exceptExtract
    \/ DirectCall /\ UNCHANGED exceptExtract
    \/ RaiseUnknownType /\ UNCHANGED exceptExtract
    \/ LoadNoChunks /\ UNCHANGED exceptExtract
    \/ OllamaDown /\ UNCHANGED exceptExtract
    \/ StartLoop /\ UNCHANGED exceptExtract
    \/ SkipNoKeywords /\ UNCHANGED exceptExtract
    \/ DropNotPattern /\ UNCHANGED exceptExtract
    \/ DropLowConfidence /\ UNCHANGED exceptExtract
    \/ DropOnException /\ UNCHANGED exceptExtract
    \/ StorePattern /\ UNCHANGED exceptExtract
    \/ ReturnStats /\ UNCHANGED exceptExtract
    \/ CallerEnds /\ UNCHANGED exceptExtract
    \/ ListPatterns /\ UNCHANGED exceptExtract

-----------------------------------------------------------------------------
(* Claims about extraction (checked under SpecExtract) *)

\* The sum of the counts of stats other than chunks_processed.
RECURSIVE SumOfCounts(_)
SumOfCounts(keys) ==
    IF keys = {} THEN 0
    ELSE LET k == CHOOSE k \in keys : TRUE
         IN ext_stats[k] + SumOfCounts(keys \ {k})

OtherCounts == SumOfCounts(DOMAIN ext_stats \ {"chunks_processed"})

\* C21: at the return of extract_patterns every processed chunk is
\* accounted for as extracted, skipped or failed: the counts of the
\* returned statistics other than chunks_processed sum to chunks_processed,
\* also when chunks were dropped for a confidence below the threshold.
C21_EveryChunkAccounted ==
    epc = "returned" => OtherCounts = ext_stats.chunks_processed


\* extract_patterns was called with a type that is no key of
\* PATTERN_CONFIGS: it raises ValueError and has not touched the store.
UnknownExtractTypeRaises ==
    (ext_type # NoneValue /\ ext_type \notin Range(PATTERN_CONFIGS)) =>
        /\ ~store_touched
        /\ fates = <<>>
        /\ epc \in {"extract_patterns", "ended"}
        /\ epc = "ended" => ext_outcome = "ValueError: Unknown pattern type"

\* answer_pattern_question was given a --pattern-type that is no key of
\* pattern_type_mapping: the response comes from no answering path.
UnknownHintIsError ==
    (qpc = "done" /\ pattern_type # NoneValue /\ detected = pattern_type
     /\ pattern_type \notin pattern_type_mapping) =>
        answered = <<>>

\* C22: an unknown pattern type is a fatal error that is never silently
\* coerced: extract_patterns raises before it touches the store, and
\* answer_pattern_question, given a pattern-type hint outside its known
\* types, returns an error and no answer from another path.
C22_UnknownTypeIsFatal == UnknownExtractTypeRaises /\ UnknownHintIsError

-----------------------------------------------------------------------------
(* normalize_requirement *)

\* Bound of the normalizer model: the number of phrases of a text.
MaxPhrases == 2

\* The phrases texts are made of: words in upper and lower case, articles,
\* numbers, dates of both forms, modal paraphrases, punctuation.
Phrases ==
    {"The system MUST have 3 backups by 2024-01-01", "must have", "have",
     "3", "1.5", "2024/01/01", "1-2-24", "an", "needs to", "a.", "v2",
     "Uptime:"}

RECURSIVE PhraseSeqs(_)
PhraseSeqs(n) ==
    IF n = 0 THEN {<<>>}
    ELSE LET shorter == PhraseSeqs(n - 1)
         IN shorter \cup {Append(s, w) : s \in shorter, w \in Phrases}

\* ---- the regular expressions of the module re, as far as they are used --
\* A pattern is a sequence of elements:
\*   [kind |-> "b"]                       \b
\*   [kind |-> "rep", of, min, max]       a character of the string "of",
\*                                        min to max times, greedy
\*   [kind |-> "plus", of]                a character of the string "of",
\*                                        once or more, greedy
\*   [kind |-> "lit", str]                the string str
\*   [kind |-> "alt", alts]               (s1|s2|...), alts a sequence
\*   [kind |-> "opt", sub]                (sub)?, sub a pattern
DigitChars == "0123456789"
WordChars == DigitChars \o "_" \o UpperCase \o LowerCase
SpaceChars == " "

B == [kind |-> "b"]
Rep(of, min, max) == [kind |-> "rep", of |-> of, min |-> min, max |-> max]
Plus(of) == [kind |-> "plus", of |-> of]
Lit(str) == [kind |-> "lit", str |-> str]
Alt(alts) == [kind |-> "alt", alts |-> alts]
Opt(sub) == [kind |-> "opt", sub |-> sub]

CharAt(text, p) == SubSeq(text, p, p)
IsWordChar(text, p) ==
    p >= 1 /\ p <= Len(text) /\ In(CharAt(text, p), WordChars)

\* \b holds before the character at position p.
AtBoundary(text, p) == IsWordChar(text, p - 1) # IsWordChar(text, p)

\* The number of characters from p on that are in the string of chars, at
\* most max.
RECURSIVE RunLength(_, _, _, _)
RunLength(text, p, of, max) ==
    IF max = 0 \/ p > Len(text) \/ ~In(CharAt(text, p), of) THEN 0
    ELSE 1 + RunLength(text, p + 1, of, max - 1)

StartsWith(text, p, str) ==
    p + Len(str) - 1 <= Len(text) /\ SubSeq(text, p, p + Len(str) - 1) = str

\* The positions where a match of the pattern that starts at p can end (the
\* position after its last character), in the order in which a backtracking
\* matcher tries them; the first is the match re finds.
\* The ends of the alternatives that match at p, in their order.
RECURSIVE AltEnds(_, _, _)
AltEnds(alts, text, p) ==
    IF alts = <<>> THEN <<>>
    ELSE (IF StartsWith(text, p, Head(alts))
          THEN <<p + Len(Head(alts))>> ELSE <<>>)
         \o AltEnds(Tail(alts), text, p)

RECURSIVE MatchEnds(_, _, _)
RECURSIVE ElementEnds(_, _, _)
RECURSIVE Continue(_, _, _)

\* The ends of the pattern from each of the positions ps, in order.
Continue(pattern, text, ps) ==
    IF ps = <<>> THEN <<>>
    ELSE MatchEnds(pattern, text, Head(ps))
         \o Continue(pattern, text, Tail(ps))

ElementEnds(e, text, p) ==
    CASE e.kind = "b" -> IF AtBoundary(text, p) THEN <<p>> ELSE <<>>
      [] e.kind = "rep" ->
             LET n == RunLength(text, p, e.of, e.max)
             IN IF n < e.min THEN <<>>
                ELSE [k \in 1..(n - e.min + 1) |-> p + n - k + 1]
      [] e.kind = "plus" ->
             LET n == RunLength(text, p, e.of, Len(text))
             IN [k \in 1..n |-> p + n - k + 1]
      [] e.kind = "lit" ->
             IF StartsWith(text, p, e.str) THEN <<p + Len(e.str)>> ELSE <<>>
      [] e.kind = "alt" -> AltEnds(e.alts, text, p)
      [] e.kind = "opt" -> MatchEnds(e.sub, text, p) \o <<p>>

MatchEnds(pattern, text, p) ==
    IF pattern = <<>> THEN <<p>>
    ELSE Continue(Tail(pattern), text, ElementEnds(Head(pattern), text, p))

\* re.sub(pattern, repl, text): the matches are found from left to right and
\* do not overlap (no pattern of the module matches the empty string).
\* first_end[q] is the end of the match that starts at q, or 0; from p on,
\* the text up to the next start of a match is copied, the match is
\* replaced, and the scan goes on behind the match.
RECURSIVE SubFrom(_, _, _, _)
SubFrom(first_end, repl, text, p) ==
    LET starts == {q \in p..Len(text) : first_end[q] > q}
    IN IF starts = {} THEN SubSeq(text, p, Len(text))
       ELSE LET m == CHOOSE q \in starts : \A r \in starts : q <= r
            IN SubSeq(text, p, m - 1) \o repl
               \o SubFrom(first_end, repl, text, first_end[m])

FirstEnds(pattern, text) ==
    [q \in 1..Len(text) |->
        LET ends == MatchEnds(pattern, text, q)
        IN IF ends = <<>> THEN 0 ELSE Head(ends)]

re_sub(pattern, repl, text) ==
    SubFrom(FirstEnds(pattern, text), repl, text, 1)

\* text.strip(chars)
RECURSIVE LStrip(_, _)
LStrip(text, chars) ==
    IF Len(text) > 0 /\ In(CharAt(text, 1), chars)
    THEN LStrip(SubSeq(text, 2, Len(text)), chars)
    ELSE text

RECURSIVE RStrip(_, _)
RStrip(text, chars) ==
    IF Len(text) > 0 /\ In(CharAt(text, Len(text)), chars)
    THEN RStrip(SubSeq(text, 1, Len(text) - 1), chars)
    ELSE text

Strip(text, chars) == RStrip(LStrip(text, chars), chars)

\* ---- the patterns of normalize_requirement ----
NumberPattern ==
    <<B, Plus(DigitChars),
      Opt(<<Lit("."), Plus(DigitChars)>>), B>>
IsoDatePattern ==
    <<B, Rep(DigitChars, 4, 4), Rep("-/", 1, 1), Rep(DigitChars, 2, 2),
      Rep("-/", 1, 1), Rep(DigitChars, 2, 2), B>>
ShortDatePattern ==
    <<B, Rep(DigitChars, 1, 2), Rep("-/", 1, 1), Rep(DigitChars, 1, 2),
      Rep("-/", 1, 1), Rep(DigitChars, 2, 4), B>>
ArticlePattern == <<B, Alt(<<"a", "an", "the">>), B>>
SpacesPattern == <<Plus(SpaceChars)>>
Spaces == Plus(SpaceChars)
MustHavePattern == <<B, Lit("must"), Spaces, Lit("have"), B>>
ShouldHavePattern == <<B, Lit("should"), Spaces, Lit("have"), B>>
NeedsToPattern == <<B, Lit("need"), Opt(<<Lit("s")>>), Spaces, Lit("to"), B>>
HasToPattern == <<B, Lit("has"), Spaces, Lit("to"), B>>
RequiredToPattern == <<B, Lit("required"), Spaces, Lit("to"), B>>

\* The placeholders of normalize_requirement, in the order of the code:
\* numbers first, dates second.
Placeholders(text) ==
    LET t1 == re_sub(NumberPattern, "NUM", text)
        t2 == re_sub(IsoDatePattern, "DATE", t1)
    IN re_sub(ShortDatePattern, "DATE", t2)

Modals(text) ==
    LET t1 == re_sub(MustHavePattern, "must", text)
        t2 == re_sub(ShouldHavePattern, "should", t1)
        t3 == re_sub(NeedsToPattern, "must", t2)
        t4 == re_sub(HasToPattern, "must", t3)
    IN re_sub(RequiredToPattern, "must", t4)

normalize_requirement(text) ==
    LET lowered == Lower(text)
        placed == Placeholders(lowered)
        no_articles == re_sub(ArticlePattern, "", placed)
        spaced == re_sub(SpacesPattern, " ", no_articles)
        stripped == Strip(spaced, ".,;:!?")
        modal == Modals(stripped)
    IN Strip(re_sub(SpacesPattern, " ", modal), SpaceChars)

NormInit ==
    /\ req_words \in PhraseSeqs(MaxPhrases)
    /\ req_text = Join(req_words)
    /\ norm_once = NoneValue
    /\ norm_twice = NoneValue
    /\ mpc = 0

NormIdle ==
    /\ req_words = <<>>
    /\ req_text = ""
    /\ norm_once = NoneValue
    /\ norm_twice = NoneValue
    /\ mpc = -1

\* pattern_norm = normalize_requirement(pattern_text)
Normalize ==
    /\ mpc = 0
    /\ norm_once' = normalize_requirement(req_text)
    /\ mpc' = 1
    /\ UNCHANGED <<req_words, req_text, norm_twice>>

\* The normalizer applied to its own output.
NormalizeAgain ==
    /\ mpc = 1
    /\ norm_twice' = normalize_requirement(norm_once)
    /\ mpc' = 2
    /\ UNCHANGED <<req_words, req_text, norm_once>>

NormNext ==
    \/ Normalize /\ UNCHANGED exceptNorm
    \/ NormalizeAgain /\ UNCHANGED exceptNorm

-----------------------------------------------------------------------------
(* Claims about normalize_requirement (checked under SpecNorm) *)

\* C23: the normalizer is idempotent: normalizing a normalized text gives
\* the same text, for every input, also for texts with numbers (whose
\* output holds the placeholder NUM) and with repeated modal paraphrases.
C23_NormalizerIdempotent ==
    mpc = 2 => norm_twice = norm_once

\* The date tokens of the phrases: ISO-like with either separator, and short.
DateTokens == {"2024-01-01", "2024/01/01", "1-2-24"}

HasDateToken ==
    \E i \in DOMAIN req_words : \E d \in DateTokens : In(d, req_words[i])

\* The text holds w as a word of its own.
HasWord(w, text) ==
    \E p \in 1..Len(text) : MatchEnds(<<B, Lit(w), B>>, text, p) # <<>>

\* C24: every ISO-like or short date token of the input is replaced by the
\* placeholder DATE and never by a NUM-NUM-NUM artifact; the output for
\* 'The system MUST have 3 backups by 2024-01-01' contains 'must', 'NUM' and
\* 'DATE' and no article 'the'.
C24_DatesBecomeDATE ==
    /\ (mpc >= 1 /\ HasDateToken) =>
           /\ In("DATE", norm_once)
           /\ ~In("NUM-NUM-NUM", norm_once)
           /\ ~In("NUM/NUM/NUM", norm_once)
    /\ (mpc >= 1 /\ req_text = "The system MUST have 3 backups by 2024-01-01") =>
           /\ In("must", norm_once)
           /\ In("NUM", norm_once)
           /\ In("DATE", norm_once)
           /\ ~HasWord("the", norm_once)

-----------------------------------------------------------------------------
(* chunk_text *)

\* Bounds of the chunker model: the pieces of a text, and the chunk size.
MaxPieces == 5
MaxChunkSize == 3

\* The pieces texts are made of: a word, a sentence ending followed by a
\* space, and a space.
Pieces == {"w", ". ", " "}

RECURSIVE Concat(_)
Concat(pieces) ==
    IF pieces = <<>> THEN "" ELSE Head(pieces) \o Concat(Tail(pieces))

RECURSIVE PieceSeqs(_)
PieceSeqs(n) ==
    IF n = 0 THEN {<<>>}
    ELSE LET shorter == PieceSeqs(n - 1)
         IN shorter \cup {Append(s, w) : s \in shorter, w \in Pieces}

DocTexts == {Concat(ps) : ps \in PieceSeqs(MaxPieces)}

\* len(s.split()): the number of words of s.
WordCount(s) ==
    Cardinality({p \in 1..Len(s) :
                    /\ CharAt(s, p) # " "
                    /\ (p = 1 \/ CharAt(s, p - 1) = " ")})

\* sentence_endings = re.compile(r'([.!?])\s+')
sentence_endings == <<Rep(".!?", 1, 1), Plus(SpaceChars)>>

\* sentence_endings.finditer(text): the ends of the matches from p on, from
\* left to right.
RECURSIVE FindEnds(_, _, _)
FindEnds(first_end, text, p) ==
    LET starts == {q \in p..Len(text) : first_end[q] > q}
    IN IF starts = {} THEN <<>>
       ELSE LET m == CHOOSE q \in starts : \A r \in starts : q <= r
            IN <<first_end[m]>> \o FindEnds(first_end, text, first_end[m])

\* The sentences of the matches: text[last_end:match.end()].strip(), kept
\* if it is not empty.
RECURSIVE MatchSentences(_, _, _)
MatchSentences(text, last_end, ends) ==
    IF ends = <<>> THEN <<>>
    ELSE LET sentence == Strip(SubSeq(text, last_end, Head(ends) - 1), " ")
         IN (IF sentence # "" THEN <<sentence>> ELSE <<>>)
            \o MatchSentences(text, Head(ends), Tail(ends))

split_into_sentences(text) ==
    LET ends == FindEnds(FirstEnds(sentence_endings, text), text, 1)
        last_end == IF ends = <<>> THEN 1 ELSE ends[Len(ends)]
        remaining == Strip(SubSeq(text, last_end, Len(text)), " ")
        found == MatchSentences(text, 1, ends)
                 \o (IF last_end <= Len(text) /\ remaining # ""
                     THEN <<remaining>> ELSE <<>>)
    IN IF found # <<>> THEN found ELSE <<text>>

\* The sentences kept for the overlap: from the last sentence of the chunk
\* backwards, as long as their words fit into the overlap; k is the sentence
\* looked at, room what is left of the overlap.
RECURSIVE OverlapSentences(_, _, _)
OverlapSentences(chunk, k, room) ==
    IF k = 0 THEN <<>>
    ELSE IF WordCount(chunk[k]) <= room
    THEN OverlapSentences(chunk, k - 1, room - WordCount(chunk[k]))
         \o <<chunk[k]>>
    ELSE <<>>

RECURSIVE TotalWords(_)
TotalWords(chunk) ==
    IF chunk = <<>> THEN 0
    ELSE WordCount(Head(chunk)) + TotalWords(Tail(chunk))

ChunkInit ==
    /\ doc_text \in DocTexts
    /\ chunk_size \in 1..MaxChunkSize
    /\ overlap \in 0..(chunk_size - 1)
    /\ sentences = <<>>
    /\ sentence_i = 0
    /\ text_chunks = <<>>
    /\ current_chunk = <<>>
    /\ current_length = 0
    /\ kpc = "called"

ChunkIdle ==
    /\ doc_text = ""
    /\ chunk_size = 0
    /\ overlap = 0
    /\ sentences = <<>>
    /\ sentence_i = 0
    /\ text_chunks = <<>>
    /\ current_chunk = <<>>
    /\ current_length = 0
    /\ kpc = "idle"

\* sentences = split_into_sentences(text); no sentences: return []
SplitText ==
    /\ kpc = "called"
    /\ sentences' = split_into_sentences(doc_text)
    /\ kpc' = IF sentences' = <<>> THEN "returned" ELSE "loop"
    /\ UNCHANGED <<doc_text, chunk_size, overlap, sentence_i, text_chunks,
                   current_chunk, current_length>>

\* An iteration whose sentence fits into the open chunk, or opens the first.
AppendSentence ==
    /\ kpc = "loop"
    /\ sentence_i < Len(sentences)
    /\ LET sentence == sentences[sentence_i + 1]
           sentence_length == WordCount(sentence)
       IN /\ ~(current_length + sentence_length > chunk_size
               /\ current_chunk # <<>>)
          /\ current_chunk' = Append(current_chunk, sentence)
          /\ current_length' = current_length + sentence_length
    /\ sentence_i' = sentence_i + 1
    /\ UNCHANGED <<doc_text, chunk_size, overlap, sentences, text_chunks,
                   kpc>>

\* An iteration whose sentence exceeds the chunk size: the open chunk is
\* saved, the next one starts with the overlap and takes the sentence.
SaveChunk ==
    /\ kpc = "loop"
    /\ sentence_i < Len(sentences)
    /\ LET sentence == sentences[sentence_i + 1]
           sentence_length == WordCount(sentence)
           overlap_sentences ==
               OverlapSentences(current_chunk, Len(current_chunk), overlap)
           overlap_length == TotalWords(overlap_sentences)
       IN /\ current_length + sentence_length > chunk_size
          /\ current_chunk # <<>>
          /\ text_chunks' = Append(text_chunks, Join(current_chunk))
          /\ current_chunk' = Append(overlap_sentences, sentence)
          /\ current_length' = overlap_length + sentence_length
    /\ sentence_i' = sentence_i + 1
    /\ UNCHANGED <<doc_text, chunk_size, overlap, sentences, kpc>>

\* After the loop: the open chunk is the final chunk; return chunks.
AddFinalChunk ==
    /\ kpc = "loop"
    /\ sentence_i = Len(sentences)
    /\ text_chunks' = IF current_chunk # <<>>
                      THEN Append(text_chunks, Join(current_chunk))
                      ELSE text_chunks
    /\ kpc' = "returned"
    /\ UNCHANGED <<doc_text, chunk_size, overlap, sentences, sentence_i,
                   current_chunk, current_length>>

ChunkNext ==
    \/ SplitText /\ UNCHANGED exceptChunk
    \/ AppendSentence /\ UNCHANGED exceptChunk
    \/ SaveChunk /\ UNCHANGED exceptChunk
    \/ AddFinalChunk /\ UNCHANGED exceptChunk

-----------------------------------------------------------------------------
(* Claims about chunk_text (checked under SpecChunk) *)

\* C25: chunk_text returns no chunks for text with no content: for the empty
\* string the result is the empty list, and no returned chunk is an empty
\* string.
C25_NoEmptyChunks ==
    kpc = "returned" =>
        /\ doc_text = "" => text_chunks = <<>>
        /\ \A k \in DOMAIN text_chunks : text_chunks[k] # ""

\* C26: for a text with more words than chunk_size, chunk_text returns more
\* than one chunk, and every returned chunk has at least one word and at
\* most chunk_size + 2 * overlap words, also when the text has no sentence
\* ending.
C26_LongTextIsSplit ==
    (kpc = "returned" /\ WordCount(doc_text) > chunk_size) =>
        /\ Len(text_chunks) > 1
        /\ \A k \in DOMAIN text_chunks :
               /\ WordCount(text_chunks[k]) >= 1
               /\ WordCount(text_chunks[k]) <= chunk_size + 2 * overlap

\* The extract command was given a name it accepts, and has ended.
AcceptedCommandEnded ==
    epc = "ended" /\ cli_pattern \in Range(valid_patterns)

\* list-patterns has queried the store (it accepted the type name).
ListQueried == listed # NoListing /\ "rejected" \notin DOMAIN listed

\* C30: every pattern name the extract command accepts, other than
\* 'requirements' and 'all', is a pattern type known to extract_patterns: an
\* accepted extract command (and each step of 'all') goes through extraction
\* without an unknown-pattern-type error, and list-patterns queries the
\* store under a type name that extraction stores.
C30_AcceptedNamesAreKnown ==
    /\ (epc = "extract_patterns" /\ cli_pattern \in Range(valid_patterns)) =>
           ext_type \in Range(PATTERN_CONFIGS)
    /\ AcceptedCommandEnded =>
           ext_outcome # "ValueError: Unknown pattern type"
    /\ ListQueried => listed.queried \in Range(PATTERN_CONFIGS)

-----------------------------------------------------------------------------
(* The specifications *)

InitRRF == RRFInit /\ IndexIdle /\ AggIdle /\ BM25Idle /\ AskIdle /\ AnswerIdle /\ CompareIdle /\ GenIdle /\ ExtractIdle /\ NormIdle /\ ChunkIdle
SpecRRF == InitRRF /\ [][RRFNext]_vars

InitIndex == RRFIdle /\ IndexInit /\ AggIdle /\ BM25Idle /\ AskIdle /\ AnswerIdle /\ CompareIdle /\ GenIdle /\ ExtractIdle /\ NormIdle /\ ChunkIdle
SpecIndex == InitIndex /\ [][IndexNext]_vars

InitAgg == RRFIdle /\ IndexIdle /\ AggInit /\ BM25Idle /\ AskIdle /\ AnswerIdle /\ CompareIdle /\ GenIdle /\ ExtractIdle /\ NormIdle /\ ChunkIdle
SpecAgg == InitAgg /\ [][AggNext]_vars

InitBM25 == RRFIdle /\ IndexIdle /\ AggIdle /\ BM25Init /\ AskIdle /\ AnswerIdle /\ CompareIdle /\ GenIdle /\ ExtractIdle /\ NormIdle /\ ChunkIdle
SpecBM25 == InitBM25 /\ [][BM25Next]_vars

InitAsk == RRFIdle /\ IndexIdle /\ AggIdle /\ BM25Idle /\ AskInit /\ AnswerIdle /\ CompareIdle /\ GenIdle /\ ExtractIdle /\ NormIdle /\ ChunkIdle
SpecAsk == InitAsk /\ [][AskNext]_vars

InitAnswer == RRFIdle /\ IndexIdle /\ AggIdle /\ BM25Idle /\ AskIdle /\ AnswerInit /\ CompareIdle /\ GenIdle /\ ExtractIdle /\ NormIdle /\ ChunkIdle
SpecAnswer == InitAnswer /\ [][AnswerNext]_vars

InitCompare == RRFIdle /\ IndexIdle /\ AggIdle /\ BM25Idle /\ AskIdle /\ AnswerIdle /\ CompareInit /\ GenIdle /\ ExtractIdle /\ NormIdle /\ ChunkIdle
SpecCompare == InitCompare /\ [][CompareNext]_vars

InitGen == RRFIdle /\ IndexIdle /\ AggIdle /\ BM25Idle /\ AskIdle /\ AnswerIdle /\ CompareIdle /\ GenInit /\ ExtractIdle /\ NormIdle /\ ChunkIdle
SpecGen == InitGen /\ [][GenNext]_vars

InitExtract == RRFIdle /\ IndexIdle /\ AggIdle /\ BM25Idle /\ AskIdle /\ AnswerIdle /\ CompareIdle /\ GenIdle /\ ExtractInit /\ NormIdle /\ ChunkIdle
SpecExtract == InitExtract /\ [][ExtractNext]_vars

InitNorm == RRFIdle /\ IndexIdle /\ AggIdle /\ BM25Idle /\ AskIdle /\ AnswerIdle /\ CompareIdle /\ GenIdle /\ ExtractIdle /\ NormInit /\ ChunkIdle
SpecNorm == InitNorm /\ [][NormNext]_vars

InitChunk == RRFIdle /\ IndexIdle /\ AggIdle /\ BM25Idle /\ AskIdle /\ AnswerIdle /\ CompareIdle /\ GenIdle /\ ExtractIdle /\ NormIdle /\ ChunkInit
SpecChunk == InitChunk /\ [][ChunkNext]_vars

====
